---- MODULE Spec2Model ----
(***************************************************************************)
(* Exercise rep counters of the workout tracker (src/src/lib/exercises.ts, *)
(* geometry in src/unnamed/part_001, registry in src/unnamed/part_002).    *)
(*                                                                         *)
(* Number representation.  The source works on IEEE doubles; the model     *)
(* works on exact integers:                                                *)
(*   - landmark coordinates x, y, z are in thousandths of the image size   *)
(*     ("milli": 1000 = 1.0);                                              *)
(*   - every scalar derived from coordinates (a distance, an average, a    *)
(*     captured baseline, the bar height) is in units U = 1e-5, that is    *)
(*     milli * 100, so that the floor 1e-5 of the source is the integer 1  *)
(*     and the mean of two coordinates is an integer;                      *)
(*   - a quotient a / b of the source is kept as the pair [n, d] and       *)
(*     compared with a threshold by cross-multiplication (d > 0 always);   *)
(*     thresholds on quotients are in hundredths ("pct": 45 = 0.45);       *)
(*   - angles are whole degrees (the floor of the source's value);         *)
(*   - clock readings (performance.now()) and pose timestamps are in       *)
(*     milliseconds.                                                       *)
(***************************************************************************)
EXTENDS Integers, Sequences, FiniteSets, TLC

VARIABLES
    selectedId,   \* id of the registry entry whose counter is active
    counter,      \* the fields of the active counter instance
    out,          \* what the last call on the counter was and returned
    now,          \* last reading of performance.now() taken by the counter
    hist,         \* observer: what the delivered frames have shown so far
    calibrator,   \* the fields of the session's PassiveCalibrator
    calOut,       \* what the last call on the calibrator was and returned
    poseHistory,  \* the fields of a PoseHistory
    poseOut,      \* what the last call on the PoseHistory was and returned
    barDetector,  \* the fields of the session's BarDetector
    barOut,       \* what the last call on the BarDetector was and returned
    session,      \* the Home component: its state, its refs, the frame loop
    twin          \* the fields of a second counter, fed the scaled frames

vars ==
    <<selectedId, counter, out, now, hist, calibrator, calOut, poseHistory,
      poseOut, barDetector, barOut, session, twin>>

\* the variables of the library objects that the counter and calibrator
\* calls do not touch
others == <<poseHistory, poseOut, barDetector, barOut, session, twin>>

\* an absent value (null, undefined); a value v that may be absent is kept as
\* <<v>>, and a landmark map has the present landmarks as its domain
NULL == <<>>

\* ---------------------------------------------------------------- bounds
MaxReps == 2
MaxNow == 4000
MaxSamples == 3
MaxBadHipFrames == 6
MaxLen == 3
MaxAppends == 3
MaxBarNow == 1500
MaxDetections == 3
MaxTotal == 3
MaxPending == 2
MaxHandle == 5
MaxPushUpNow == 6000

\* ------------------------------------------------------------ arithmetic
Abs(a) == IF a < 0 THEN -a ELSE a
Max(a, b) == IF a >= b THEN a ELSE b
Min(a, b) == IF a <= b THEN a ELSE b

\* floor of the square root (Math.hypot on integer components), by Newton's
\* iteration from a start x >= sqrt(n)
RECURSIVE ISqrtIter(_, _)
ISqrtIter(n, x) ==
    LET y == (x + n \div x) \div 2
    IN  IF y >= x THEN x ELSE ISqrtIter(n, y)

ISqrt(n) ==
    IF n = 0 THEN 0
    ELSE ISqrtIter(n, IF n < 10000 THEN 100
                      ELSE IF n < 1000000 THEN 1000
                      ELSE IF n < 100000000 THEN 10000 ELSE 46340)

\* a quotient n / d of the source, d > 0
Rat(n, d) == [n |-> n, d |-> d]
RatGE(r, pct) == r.n * 100 >= pct * r.d
RatGT(r, pct) == r.n * 100 > pct * r.d
RatLE(r, pct) == r.n * 100 <= pct * r.d
RatLT(r, pct) == r.n * 100 < pct * r.d
\* r < pct * tenths / 10  (the "* 0.8", "* 0.85" of the form warnings)
RatLTScaled(r, pct, tenths100) == r.n * 10000 < pct * tenths100 * r.d

\* a reference length taken as it is
Max1e5_none(v) == v

\* Math.max(v, 1e-5) on a value in U
Max1e5(v) == IF v < 1 THEN 1 ELSE v

\* ---------------------------------------------------------------- median
RECURSIVE InsertSorted(_, _)
InsertSorted(s, v) ==
    IF s = <<>> THEN <<v>>
    ELSE IF v <= Head(s) THEN <<v>> \o s
         ELSE <<Head(s)>> \o InsertSorted(Tail(s), v)

RECURSIVE SortAsc(_)
SortAsc(s) == IF s = <<>> THEN <<>> ELSE InsertSorted(SortAsc(Tail(s)), Head(s))

\* median of a list of values in U; the mean of two integers in U that are
\* multiples of 100 is an integer
median(values) ==
    IF Len(values) = 0 THEN 0
    ELSE LET sorted == SortAsc(values)
             mid == Len(sorted) \div 2      \* 0-based index of the source
         IN  IF Len(sorted) % 2 = 0
             THEN (sorted[mid] + sorted[mid + 1]) \div 2
             ELSE sorted[mid + 1]

\* -------------------------------------------------------------- geometry
\* cos(d degrees) * 1000, d = 0 .. 180 (index d + 1)
CosTable ==
    << 1000, 1000, 999, 999, 998, 996, 995, 993, 990, 988, 985, 982, 978, 974,
       970, 966, 961, 956, 951, 946, 940, 934, 927, 921, 914, 906, 899, 891,
       883, 875, 866, 857, 848, 839, 829, 819, 809, 799, 788, 777, 766, 755,
       743, 731, 719, 707, 695, 682, 669, 656, 643, 629, 616, 602, 588, 574,
       559, 545, 530, 515, 500, 485, 469, 454, 438, 423, 407, 391, 375, 358,
       342, 326, 309, 292, 276, 259, 242, 225, 208, 191, 174, 156, 139, 122,
       105, 87, 70, 52, 35, 17, 0, -17, -35, -52, -70, -87, -105, -122, -139,
       -156, -174, -191, -208, -225, -242, -259, -276, -292, -309, -326, -342,
       -358, -375, -391, -407, -423, -438, -454, -469, -485, -500, -515, -530,
       -545, -559, -574, -588, -602, -616, -629, -643, -656, -669, -682, -695,
       -707, -719, -731, -743, -755, -766, -777, -788, -799, -809, -819, -829,
       -839, -848, -857, -866, -875, -883, -891, -899, -906, -914, -921, -927,
       -934, -940, -946, -951, -956, -961, -966, -970, -974, -978, -982, -985,
       -988, -990, -993, -995, -996, -998, -999, -999, -1000, -1000 >>

RECURSIVE AcosIter(_, _, _)
AcosIter(c, lo, hi) ==
    IF lo >= hi THEN lo
    ELSE LET mid == (lo + hi + 1) \div 2
         IN  IF CosTable[mid + 1] >= c THEN AcosIter(c, mid, hi)
                                       ELSE AcosIter(c, lo, mid - 1)

\* Math.acos(c / 1000) in whole degrees: the largest d with cos d >= c
AcosDeg(c) == AcosIter(c, 0, 180)

\* distance2d(a, b), in U
distance2d(a, b) ==
    LET dx == a.x - b.x
        dy == a.y - b.y
    IN  ISqrt(dx * dx + dy * dy) * 100

\* angleDegrees(a, b, c): the angle at b, in whole degrees; 0 when a ray has
\* no length.  The two magnitudes are taken to a tenth of a milli, which
\* keeps the cosine within 1/1000 for rays of 50 milli and more.
angleDegrees(a, b, c) ==
    LET bax == a.x - b.x
        bay == a.y - b.y
        bcx == c.x - b.x
        bcy == c.y - b.y
        dot == bax * bcx + bay * bcy
        magBa == ISqrt((bax * bax + bay * bay) * 100)
        magBc == ISqrt((bcx * bcx + bcy * bcy) * 100)
    IN  IF magBa = 0 \/ magBc = 0 THEN 0
        ELSE LET den == Max(1, (magBa * magBc) \div 100)
                 raw == IF dot >= 0 THEN (dot * 1000) \div den
                                    ELSE -(((-dot) * 1000) \div den)
                 cosTheta == Max(-1000, Min(1000, raw))
             IN  AcosDeg(cosTheta)

\* a computeVelocity that floors the time delta instead of giving up
computeVelocity_floorDt(prevVal, prevTime, currVal, currTime) ==
    LET dt == currTime - prevTime
    IN  <<Rat(currVal - prevVal, Max(dt, 1) * 100)>>

\* computeVelocity(prevVal, prevTime, currVal, currTime): values in U, times
\* in ms; NULL when the time delta is <= 1e-6 s, else the quotient in 1/s
computeVelocity(prevVal, prevTime, currVal, currTime) ==
    LET dt == currTime - prevTime
    IN  IF dt <= 0 THEN NULL ELSE <<Rat(currVal - prevVal, dt * 100)>>

\* (a.y + b.y) / 2 and the like, in U
Mean2(p, q) == (p + q) * 50

\* --------------------------------------------------------- exercise state
\* ExerciseState, the value update() returns
ExerciseState(repCount, phase, warnings, isRepValid) ==
    [repCount |-> repCount, phase |-> phase, warnings |-> warnings,
     isRepValid |-> isRepValid]

\* what a call leaves behind: the counter, the returned state, and the last
\* time value (clock reading or pose timestamp) the call consumed
Result(c, st, clock) == [c |-> c, out |-> st, clock |-> clock]

Present(lm, names) == names \subseteq DOMAIN lm

\* SelectSide_rightFirst differs from SelectSide in preferring the right
\* triple when both are complete
SelectSide_rightFirst(lm, left, right) ==
    LET leftValid == \A i \in 1..3 : left[i] \in DOMAIN lm
        rightValid == \A i \in 1..3 : right[i] \in DOMAIN lm
    IN  IF rightValid THEN <<lm[right[1]], lm[right[2]], lm[right[3]]>>
        ELSE IF leftValid THEN <<lm[left[1]], lm[left[2]], lm[left[3]]>>
        ELSE NULL

\* selectLegSide / selectTorsoSide: the left triple when complete, else the
\* right triple when complete, else NULL
SelectSide(lm, left, right) ==
    LET leftValid == \A i \in 1..3 : left[i] \in DOMAIN lm
        rightValid == \A i \in 1..3 : right[i] \in DOMAIN lm
    IN  IF leftValid /\ rightValid THEN <<lm[left[1]], lm[left[2]], lm[left[3]]>>
        ELSE IF leftValid THEN <<lm[left[1]], lm[left[2]], lm[left[3]]>>
        ELSE IF rightValid THEN <<lm[right[1]], lm[right[2]], lm[right[3]]>>
        ELSE NULL

selectLegSide(lm) ==
    SelectSide(lm, <<"left_hip", "left_knee", "left_ankle">>,
                   <<"right_hip", "right_knee", "right_ankle">>)

selectTorsoSide(lm) ==
    SelectSide(lm, <<"left_shoulder", "left_hip", "left_knee">>,
                   <<"right_shoulder", "right_hip", "right_knee">>)

\* ------------------------------------------------------ JumpingJackCounter
JumpingJackCounter(calibrationMs, armRaiseFactor, legSpreadFactor) ==
    [cls |-> "JumpingJack", repCount |-> 0, phase |-> "CALIBRATING",
     thresholds |-> NULL, startTime |-> NULL,
     hipWidths |-> <<>>, ankleDists |-> <<>>, shoulderYs |-> <<>>,
     openFrames |-> 0, closeFrames |-> 0,
     calibrationMs |-> calibrationMs,
     armRaiseFactor |-> armRaiseFactor, legSpreadFactor |-> legSpreadFactor]

JumpingJackCounter_requiredJoints ==
    {"left_shoulder", "right_shoulder", "left_wrist", "right_wrist",
     "left_hip", "right_hip", "left_ankle", "right_ankle"}

\* a reset that keeps the calibration samples
JumpingJackCounter_reset_keepSamples(c) ==
    [c EXCEPT !.repCount = 0, !.phase = "CALIBRATING", !.thresholds = NULL,
              !.startTime = NULL, !.openFrames = 0, !.closeFrames = 0]

JumpingJackCounter_reset(c) ==
    [c EXCEPT !.repCount = 0, !.phase = "CALIBRATING", !.thresholds = NULL,
              !.startTime = NULL, !.hipWidths = <<>>, !.ankleDists = <<>>,
              !.shoulderYs = <<>>, !.openFrames = 0, !.closeFrames = 0]

\* the four conditions of a complete frame under the calibrated thresholds;
\* armRaiseDelta and legSpreadDelta are factor (pct) * hip (U)
JumpingJackCounter_conditions(thresholds, lm) ==
    LET shoulderY == Mean2(lm["left_shoulder"].y, lm["right_shoulder"].y)
        wristAvgY == Mean2(lm["left_wrist"].y, lm["right_wrist"].y)
        ankleDist == distance2d(lm["left_ankle"], lm["right_ankle"])
    IN  [armsUp |-> (shoulderY - wristAvgY) * 100 >= thresholds.armRaiseDelta,
         armsDown |-> (wristAvgY - shoulderY) * 100 >= 15 * thresholds.hipWidth,
         legsApart |-> ankleDist * 100 >=
                         thresholds.baselineAnkleDist * 100 + thresholds.legSpreadDelta,
         legsTogether |-> ankleDist * 100 <=
                         thresholds.baselineAnkleDist * 100 + 20 * thresholds.hipWidth]

\* a machine that counts when the jack opens
JumpingJackCounter_step_countOnOpen(c, q) ==
    IF c.phase = "CLOSED" THEN
        IF q.armsUp /\ q.legsApart THEN
            IF c.openFrames + 1 >= 2
            THEN [c EXCEPT !.repCount = c.repCount + 1, !.phase = "OPEN",
                           !.openFrames = 0]
            ELSE [c EXCEPT !.openFrames = c.openFrames + 1]
        ELSE [c EXCEPT !.openFrames = 0]
    ELSE IF c.phase = "OPEN" THEN
        IF q.armsDown /\ q.legsTogether THEN
            IF c.closeFrames + 1 >= 2
            THEN [c EXCEPT !.phase = "CLOSED", !.closeFrames = 0]
            ELSE [c EXCEPT !.closeFrames = c.closeFrames + 1]
        ELSE [c EXCEPT !.closeFrames = 0]
    ELSE c

\* the CLOSED / OPEN machine with its two debounce counters
JumpingJackCounter_step(c, q) ==
    IF c.phase = "CLOSED" THEN
        IF q.armsUp /\ q.legsApart THEN
            IF c.openFrames + 1 >= 2
            THEN [c EXCEPT !.phase = "OPEN", !.openFrames = 0]
            ELSE [c EXCEPT !.openFrames = c.openFrames + 1]
        ELSE [c EXCEPT !.openFrames = 0]
    ELSE IF c.phase = "OPEN" THEN
        IF q.armsDown /\ q.legsTogether THEN
            IF c.closeFrames + 1 >= 2
            THEN [c EXCEPT !.repCount = c.repCount + 1, !.phase = "CLOSED",
                           !.closeFrames = 0]
            ELSE [c EXCEPT !.closeFrames = c.closeFrames + 1]
        ELSE [c EXCEPT !.closeFrames = 0]
    ELSE c

\* the samples of a complete frame are pushed and the window is tested; the
\* thresholds are set, and the phase becomes CLOSED, once it has elapsed.
\* t1, t2: the readings of the first and second performance.now() of the call
JumpingJackCounter_calibrate(c, lm, t1, t2) ==
    LET hipWidth == distance2d(lm["left_hip"], lm["right_hip"])
        ankleDist == distance2d(lm["left_ankle"], lm["right_ankle"])
        shoulderY == Mean2(lm["left_shoulder"].y, lm["right_shoulder"].y)
        startTime == IF c.startTime = NULL THEN t1 ELSE c.startTime[1]
        tCheck == IF c.startTime = NULL THEN t2 ELSE t1
        c1 == [c EXCEPT !.startTime = <<startTime>>,
                        !.hipWidths = Append(c.hipWidths, hipWidth),
                        !.ankleDists = Append(c.ankleDists, ankleDist),
                        !.shoulderYs = Append(c.shoulderYs, shoulderY)]
        hip == Max1e5(median(c1.hipWidths))
        baseline == median(c1.ankleDists)
    IN  IF tCheck - startTime < c.calibrationMs
        THEN [c |-> c1, done |-> FALSE, clock |-> <<tCheck>>]
        ELSE [c |-> [c1 EXCEPT !.thresholds =
                                   <<[hipWidth |-> hip,
                                      baselineAnkleDist |-> baseline,
                                      armRaiseDelta |-> c.armRaiseFactor * hip,
                                      legSpreadDelta |-> c.legSpreadFactor * hip]>>,
                               !.phase = "CLOSED"],
              done |-> TRUE, clock |-> <<tCheck>>]

JumpingJackCounter_update(c, pose, t1, t2) ==
    LET lm == pose.rawLandmarks IN
    IF ~pose.valid THEN
        Result(c, ExerciseState(c.repCount, c.phase, <<"No pose detected">>, TRUE), NULL)
    ELSE IF ~Present(lm, JumpingJackCounter_requiredJoints) THEN
        Result(c, ExerciseState(c.repCount, c.phase, <<"Body not fully visible">>, TRUE), NULL)
    ELSE
        LET cal == IF c.thresholds = NULL
                   THEN JumpingJackCounter_calibrate(c, lm, t1, t2)
                   ELSE [c |-> c, done |-> TRUE, clock |-> NULL]
        IN  IF ~cal.done THEN
                Result(cal.c, ExerciseState(c.repCount, "CALIBRATING",
                                            <<"Calibrating...">>, TRUE), cal.clock)
            ELSE
                LET q == JumpingJackCounter_conditions(cal.c.thresholds[1], lm)
                    c2 == JumpingJackCounter_step(cal.c, q)
                    w1 == IF ~q.armsUp /\ c2.phase = "OPEN"
                          THEN <<"Raise arms higher">> ELSE <<>>
                    w2 == IF ~q.legsApart /\ c2.phase = "OPEN"
                          THEN <<"Spread legs wider">> ELSE <<>>
                IN  Result(c2, ExerciseState(c2.repCount, c2.phase, w1 \o w2, TRUE),
                           cal.clock)

\* --------------------------------------------------------- ArmRaiseCounter
ArmRaiseCounter(raiseDelta, lowerDelta) ==
    [cls |-> "ArmRaise", repCount |-> 0, phase |-> "DOWN",
     raiseDelta |-> raiseDelta, lowerDelta |-> lowerDelta, shoulderWidth |-> NULL]

ArmRaiseCounter_requiredJoints ==
    {"left_shoulder", "right_shoulder", "left_wrist", "right_wrist"}

ArmRaiseCounter_reset(c) ==
    [c EXCEPT !.repCount = 0, !.phase = "DOWN", !.shoulderWidth = NULL]

\* the captured shoulder width and the two quotients of a complete frame
ArmRaiseCounter_measure(c, lm) ==
    LET shoulderY == Mean2(lm["left_shoulder"].y, lm["right_shoulder"].y)
        wristY == Mean2(lm["left_wrist"].y, lm["right_wrist"].y)
        width == distance2d(lm["left_shoulder"], lm["right_shoulder"])
        shoulderWidth == IF c.shoulderWidth = NULL THEN Max1e5(width)
                                                   ELSE c.shoulderWidth[1]
    IN  [shoulderWidth |-> shoulderWidth,
         armRaise |-> Rat(shoulderY - wristY, shoulderWidth),
         armLower |-> Rat(wristY - shoulderY, shoulderWidth)]

\* a machine that counts whenever the arms are low
ArmRaiseCounter_step_countLow(c, m) ==
    IF c.phase = "DOWN" THEN
        IF RatGE(m.armRaise, c.raiseDelta) THEN [c EXCEPT !.phase = "UP"]
        ELSE IF RatGE(m.armLower, c.lowerDelta)
        THEN [c EXCEPT !.repCount = c.repCount + 1]
        ELSE c
    ELSE IF c.phase = "UP" THEN
        IF RatGE(m.armLower, c.lowerDelta)
        THEN [c EXCEPT !.repCount = c.repCount + 1, !.phase = "DOWN"]
        ELSE c
    ELSE c

ArmRaiseCounter_step(c, m) ==
    IF c.phase = "DOWN" THEN
        IF RatGE(m.armRaise, c.raiseDelta) THEN [c EXCEPT !.phase = "UP"] ELSE c
    ELSE IF c.phase = "UP" THEN
        IF RatGE(m.armLower, c.lowerDelta)
        THEN [c EXCEPT !.repCount = c.repCount + 1, !.phase = "DOWN"]
        ELSE c
    ELSE c

ArmRaiseCounter_update(c, pose) ==
    LET lm == pose.rawLandmarks IN
    IF ~pose.valid THEN
        Result(c, ExerciseState(c.repCount, c.phase, <<"No pose detected">>, TRUE), NULL)
    ELSE IF ~Present(lm, ArmRaiseCounter_requiredJoints) THEN
        Result(c, ExerciseState(c.repCount, c.phase, <<"Arms not visible">>, TRUE), NULL)
    ELSE
        LET m == ArmRaiseCounter_measure(c, lm)
            c2 == ArmRaiseCounter_step([c EXCEPT !.shoulderWidth = <<m.shoulderWidth>>], m)
            w == IF c2.phase = "UP" /\ RatLTScaled(m.armRaise, c.raiseDelta, 80)
                 THEN <<"Raise arms higher">> ELSE <<>>
        IN  Result(c2, ExerciseState(c2.repCount, c2.phase, w, TRUE), NULL)

\* -------------------------------------------------------- LegSpreadCounter
LegSpreadCounter(spreadDelta, closeDelta) ==
    [cls |-> "LegSpread", repCount |-> 0, phase |-> "CLOSED",
     spreadDelta |-> spreadDelta, closeDelta |-> closeDelta,
     baselineAnkleDist |-> NULL, hipWidth |-> NULL]

LegSpreadCounter_requiredJoints ==
    {"left_hip", "right_hip", "left_ankle", "right_ankle"}

LegSpreadCounter_reset(c) ==
    [c EXCEPT !.repCount = 0, !.phase = "CLOSED", !.baselineAnkleDist = NULL,
              !.hipWidth = NULL]

LegSpreadCounter_measure(c, lm) ==
    LET hipWidth == distance2d(lm["left_hip"], lm["right_hip"])
        ankleDist == distance2d(lm["left_ankle"], lm["right_ankle"])
        hw == IF c.hipWidth = NULL THEN Max1e5(hipWidth) ELSE c.hipWidth[1]
        base == IF c.baselineAnkleDist = NULL THEN ankleDist ELSE c.baselineAnkleDist[1]
    IN  [hipWidth |-> hw, baselineAnkleDist |-> base,
         spread |-> Rat(ankleDist - base, hw)]

\* a machine that closes without counting until the legs have closed twice
LegSpreadCounter_step_lazy(c, m) ==
    IF c.phase = "CLOSED" THEN
        IF RatGE(m.spread, c.spreadDelta) THEN [c EXCEPT !.phase = "OPEN"] ELSE c
    ELSE IF c.phase = "OPEN" THEN
        IF RatLE(m.spread, c.closeDelta)
        THEN [c EXCEPT !.repCount = c.repCount + (IF c.repCount = 0 THEN 0 ELSE 1),
                       !.phase = "CLOSED"]
        ELSE c
    ELSE c

LegSpreadCounter_step(c, m) ==
    IF c.phase = "CLOSED" THEN
        IF RatGE(m.spread, c.spreadDelta) THEN [c EXCEPT !.phase = "OPEN"] ELSE c
    ELSE IF c.phase = "OPEN" THEN
        IF RatLE(m.spread, c.closeDelta)
        THEN [c EXCEPT !.repCount = c.repCount + 1, !.phase = "CLOSED"]
        ELSE c
    ELSE c

LegSpreadCounter_update(c, pose) ==
    LET lm == pose.rawLandmarks IN
    IF ~pose.valid THEN
        Result(c, ExerciseState(c.repCount, c.phase, <<"No pose detected">>, TRUE), NULL)
    ELSE IF ~Present(lm, LegSpreadCounter_requiredJoints) THEN
        Result(c, ExerciseState(c.repCount, c.phase, <<"Legs not visible">>, TRUE), NULL)
    ELSE
        LET m == LegSpreadCounter_measure(c, lm)
            c2 == LegSpreadCounter_step(
                      [c EXCEPT !.hipWidth = <<m.hipWidth>>,
                                !.baselineAnkleDist = <<m.baselineAnkleDist>>], m)
            w == IF c2.phase = "OPEN" /\ RatLTScaled(m.spread, c.spreadDelta, 80)
                 THEN <<"Spread legs wider">> ELSE <<>>
        IN  Result(c2, ExerciseState(c2.repCount, c2.phase, w, TRUE), NULL)

\* -------------------------------------------------------- KneeRaiseCounter
\* a counter whose lower threshold lies above its raise threshold
KneeRaiseCounter_swapped(raiseDelta, lowerDelta) ==
    [cls |-> "KneeRaise", repCount |-> 0, phase |-> "DOWN",
     raiseDelta |-> lowerDelta, lowerDelta |-> raiseDelta, legLength |-> NULL]

KneeRaiseCounter(raiseDelta, lowerDelta) ==
    [cls |-> "KneeRaise", repCount |-> 0, phase |-> "DOWN",
     raiseDelta |-> raiseDelta, lowerDelta |-> lowerDelta, legLength |-> NULL]

KneeRaiseCounter_reset(c) ==
    [c EXCEPT !.repCount = 0, !.phase = "DOWN", !.legLength = NULL]

\* side = <<hip, knee, ankle>>
KneeRaiseCounter_measure(c, side) ==
    LET legLength == IF c.legLength = NULL
                     THEN Max1e5(distance2d(side[1], side[3])) ELSE c.legLength[1]
    IN  [legLength |-> legLength,
         kneeRaise |-> Rat((side[1].y - side[2].y) * 100, legLength)]

KneeRaiseCounter_step(c, m) ==
    IF c.phase = "DOWN" THEN
        IF RatGE(m.kneeRaise, c.raiseDelta) THEN [c EXCEPT !.phase = "UP"] ELSE c
    ELSE IF c.phase = "UP" THEN
        IF RatLE(m.kneeRaise, c.lowerDelta)
        THEN [c EXCEPT !.repCount = c.repCount + 1, !.phase = "DOWN"]
        ELSE c
    ELSE c

KneeRaiseCounter_update(c, pose) ==
    LET side == selectLegSide(pose.rawLandmarks) IN
    IF ~pose.valid THEN
        Result(c, ExerciseState(c.repCount, c.phase, <<"No pose detected">>, TRUE), NULL)
    ELSE IF side = NULL THEN
        Result(c, ExerciseState(c.repCount, c.phase, <<"Legs not visible">>, TRUE), NULL)
    ELSE
        LET m == KneeRaiseCounter_measure(c, side)
            c2 == KneeRaiseCounter_step([c EXCEPT !.legLength = <<m.legLength>>], m)
            w == IF c2.phase = "UP" /\ RatLTScaled(m.kneeRaise, c.raiseDelta, 85)
                 THEN <<"Lift knee higher">> ELSE <<>>
        IN  Result(c2, ExerciseState(c2.repCount, c2.phase, w, TRUE), NULL)

\* -------------------------------------------------------- TorsoBendCounter
TorsoBendCounter(bendDelta, returnDelta) ==
    [cls |-> "TorsoBend", repCount |-> 0, phase |-> "CENTER",
     bendDelta |-> bendDelta, returnDelta |-> returnDelta, shoulderWidth |-> NULL]

TorsoBendCounter_requiredJoints ==
    {"left_shoulder", "right_shoulder", "left_hip", "right_hip"}

TorsoBendCounter_reset(c) ==
    [c EXCEPT !.repCount = 0, !.phase = "CENTER", !.shoulderWidth = NULL]

TorsoBendCounter_measure(c, lm) ==
    LET shoulderCenterX == Mean2(lm["left_shoulder"].x, lm["right_shoulder"].x)
        hipCenterX == Mean2(lm["left_hip"].x, lm["right_hip"].x)
        width == distance2d(lm["left_shoulder"], lm["right_shoulder"])
        shoulderWidth == IF c.shoulderWidth = NULL THEN Max1e5(width)
                                                   ELSE c.shoulderWidth[1]
    IN  [shoulderWidth |-> shoulderWidth,
         bend |-> Rat(Abs(shoulderCenterX - hipCenterX), shoulderWidth)]

TorsoBendCounter_step(c, m) ==
    IF c.phase = "CENTER" THEN
        IF RatGE(m.bend, c.bendDelta) THEN [c EXCEPT !.phase = "BEND"] ELSE c
    ELSE IF c.phase = "BEND" THEN
        IF RatLE(m.bend, c.returnDelta)
        THEN [c EXCEPT !.repCount = c.repCount + 1, !.phase = "CENTER"]
        ELSE c
    ELSE c

TorsoBendCounter_update(c, pose) ==
    LET lm == pose.rawLandmarks IN
    IF ~pose.valid THEN
        Result(c, ExerciseState(c.repCount, c.phase, <<"No pose detected">>, TRUE), NULL)
    ELSE IF ~Present(lm, TorsoBendCounter_requiredJoints) THEN
        Result(c, ExerciseState(c.repCount, c.phase, <<"Torso not visible">>, TRUE), NULL)
    ELSE
        LET m == TorsoBendCounter_measure(c, lm)
            c2 == TorsoBendCounter_step([c EXCEPT !.shoulderWidth = <<m.shoulderWidth>>], m)
            w == IF c2.phase = "BEND" /\ RatLTScaled(m.bend, c.bendDelta, 85)
                 THEN <<"Bend further">> ELSE <<>>
        IN  Result(c2, ExerciseState(c2.repCount, c2.phase, w, TRUE), NULL)

\* ------------------------------------------- SquatCounter and LungeCounter
SquatCounter(topKneeAngle, bottomKneeAngle, hipDropMin, startDrop) ==
    [cls |-> "Squat", repCount |-> 0, phase |-> "TOP",
     topKneeAngle |-> topKneeAngle, bottomKneeAngle |-> bottomKneeAngle,
     hipDropMin |-> hipDropMin, startDrop |-> startDrop,
     hipYTop |-> NULL, legLength |-> NULL]

LungeCounter(topKneeAngle, bottomKneeAngle, hipDropMin, startDrop) ==
    [cls |-> "Lunge", repCount |-> 0, phase |-> "TOP",
     topKneeAngle |-> topKneeAngle, bottomKneeAngle |-> bottomKneeAngle,
     hipDropMin |-> hipDropMin, startDrop |-> startDrop,
     hipYTop |-> NULL, legLength |-> NULL]

SquatCounter_reset(c) ==
    [c EXCEPT !.repCount = 0, !.phase = "TOP", !.hipYTop = NULL, !.legLength = NULL]

LungeCounter_reset(c) ==
    [c EXCEPT !.repCount = 0, !.phase = "TOP", !.hipYTop = NULL, !.legLength = NULL]

\* side = <<hip, knee, ankle>>; the same measurement in both classes
SquatCounter_measure(c, side) ==
    LET hipY == side[1].y * 100
        hipYTop == IF c.hipYTop = NULL THEN hipY ELSE c.hipYTop[1]
        legLength == IF c.legLength = NULL
                     THEN Max1e5(distance2d(side[1], side[3])) ELSE c.legLength[1]
    IN  [hipYTop |-> hipYTop, legLength |-> legLength,
         kneeAngle |-> angleDegrees(side[1], side[2], side[3]),
         hipDrop |-> Rat(hipY - hipYTop, legLength)]

\* a machine that counts a dip that comes back up before BOTTOM
SquatCounter_step_shallow(c, m) ==
    IF c.phase = "TOP" THEN
        IF m.kneeAngle < c.topKneeAngle /\ RatGT(m.hipDrop, c.startDrop)
        THEN [c EXCEPT !.phase = "DOWN"] ELSE c
    ELSE IF c.phase = "DOWN" THEN
        IF m.kneeAngle <= c.bottomKneeAngle /\ RatGE(m.hipDrop, c.hipDropMin)
        THEN [c EXCEPT !.phase = "BOTTOM"]
        ELSE IF m.kneeAngle >= c.topKneeAngle - 5 /\ RatLE(m.hipDrop, 4)
        THEN [c EXCEPT !.repCount = c.repCount + 1, !.phase = "TOP"]
        ELSE c
    ELSE IF c.phase = "BOTTOM" THEN
        IF m.kneeAngle > c.bottomKneeAngle + 5
        THEN [c EXCEPT !.phase = "UP"] ELSE c
    ELSE IF c.phase = "UP" THEN
        IF m.kneeAngle >= c.topKneeAngle - 5 /\ RatLE(m.hipDrop, 4)
        THEN [c EXCEPT !.repCount = c.repCount + 1, !.phase = "TOP"] ELSE c
    ELSE c

SquatCounter_step(c, m) ==
    IF c.phase = "TOP" THEN
        IF m.kneeAngle < c.topKneeAngle /\ RatGT(m.hipDrop, c.startDrop)
        THEN [c EXCEPT !.phase = "DOWN"] ELSE c
    ELSE IF c.phase = "DOWN" THEN
        IF m.kneeAngle <= c.bottomKneeAngle /\ RatGE(m.hipDrop, c.hipDropMin)
        THEN [c EXCEPT !.phase = "BOTTOM"] ELSE c
    ELSE IF c.phase = "BOTTOM" THEN
        IF m.kneeAngle > c.bottomKneeAngle + 5
        THEN [c EXCEPT !.phase = "UP"] ELSE c
    ELSE IF c.phase = "UP" THEN
        IF m.kneeAngle >= c.topKneeAngle - 5 /\ RatLE(m.hipDrop, 4)
        THEN [c EXCEPT !.repCount = c.repCount + 1, !.phase = "TOP"] ELSE c
    ELSE c

LungeCounter_step(c, m) ==
    IF c.phase = "TOP" THEN
        IF m.kneeAngle < c.topKneeAngle /\ RatGT(m.hipDrop, c.startDrop)
        THEN [c EXCEPT !.phase = "DOWN"] ELSE c
    ELSE IF c.phase = "DOWN" THEN
        IF m.kneeAngle <= c.bottomKneeAngle /\ RatGE(m.hipDrop, c.hipDropMin)
        THEN [c EXCEPT !.phase = "BOTTOM"] ELSE c
    ELSE IF c.phase = "BOTTOM" THEN
        IF m.kneeAngle > c.bottomKneeAngle + 5
        THEN [c EXCEPT !.phase = "UP"] ELSE c
    ELSE IF c.phase = "UP" THEN
        IF m.kneeAngle >= c.topKneeAngle - 5 /\ RatLE(m.hipDrop, 5)
        THEN [c EXCEPT !.repCount = c.repCount + 1, !.phase = "TOP"] ELSE c
    ELSE c

\* an update that starts the rep again when the legs are lost
SquatCounter_update_restart(c, pose) ==
    LET side == selectLegSide(pose.rawLandmarks) IN
    IF ~pose.valid THEN
        Result(c, ExerciseState(c.repCount, c.phase, <<"No pose detected">>, TRUE), NULL)
    ELSE IF side = NULL THEN
        Result([c EXCEPT !.phase = "TOP"],
               ExerciseState(c.repCount, c.phase, <<"Legs not visible">>, TRUE), NULL)
    ELSE
        LET m == SquatCounter_measure(c, side)
            c2 == SquatCounter_step(
                      [c EXCEPT !.hipYTop = <<m.hipYTop>>, !.legLength = <<m.legLength>>], m)
            w == IF c2.phase \in {"DOWN", "BOTTOM"}
                    /\ m.kneeAngle > c.bottomKneeAngle + 10
                 THEN <<"Go lower">> ELSE <<>>
        IN  Result(c2, ExerciseState(c2.repCount, c2.phase, w, TRUE), NULL)

SquatCounter_update(c, pose) ==
    LET side == selectLegSide(pose.rawLandmarks) IN
    IF ~pose.valid THEN
        Result(c, ExerciseState(c.repCount, c.phase, <<"No pose detected">>, TRUE), NULL)
    ELSE IF side = NULL THEN
        Result(c, ExerciseState(c.repCount, c.phase, <<"Legs not visible">>, TRUE), NULL)
    ELSE
        LET m == SquatCounter_measure(c, side)
            c2 == SquatCounter_step(
                      [c EXCEPT !.hipYTop = <<m.hipYTop>>, !.legLength = <<m.legLength>>], m)
            w == IF c2.phase \in {"DOWN", "BOTTOM"}
                    /\ m.kneeAngle > c.bottomKneeAngle + 10
                 THEN <<"Go lower">> ELSE <<>>
        IN  Result(c2, ExerciseState(c2.repCount, c2.phase, w, TRUE), NULL)

LungeCounter_update(c, pose) ==
    LET side == selectLegSide(pose.rawLandmarks) IN
    IF ~pose.valid THEN
        Result(c, ExerciseState(c.repCount, c.phase, <<"No pose detected">>, TRUE), NULL)
    ELSE IF side = NULL THEN
        Result(c, ExerciseState(c.repCount, c.phase, <<"Legs not visible">>, TRUE), NULL)
    ELSE
        LET m == SquatCounter_measure(c, side)
            c2 == LungeCounter_step(
                      [c EXCEPT !.hipYTop = <<m.hipYTop>>, !.legLength = <<m.legLength>>], m)
            w == IF c2.phase \in {"DOWN", "BOTTOM"}
                    /\ m.kneeAngle > c.bottomKneeAngle + 10
                 THEN <<"Go lower">> ELSE <<>>
        IN  Result(c2, ExerciseState(c2.repCount, c2.phase, w, TRUE), NULL)

\* ------------------------------------------------------------ SitUpCounter
SitUpCounter ==
    [cls |-> "SitUp", repCount |-> 0, phase |-> "DOWN",
     downTorsoAngle |-> 35, upTorsoAngle |-> 70, minTorsoRaise |-> 18,
     hipYBase |-> NULL, torsoLength |-> NULL]

SitUpCounter_reset(c) ==
    [c EXCEPT !.repCount = 0, !.phase = "DOWN", !.hipYBase = NULL,
              !.torsoLength = NULL]

\* side = <<shoulder, hip, knee>>
SitUpCounter_measure(c, side) ==
    LET hipYBase == IF c.hipYBase = NULL THEN side[2].y * 100 ELSE c.hipYBase[1]
        torsoLength == IF c.torsoLength = NULL
                       THEN Max1e5(distance2d(side[1], side[2])) ELSE c.torsoLength[1]
    IN  [hipYBase |-> hipYBase, torsoLength |-> torsoLength,
         torsoRaise |-> Rat(hipYBase - side[2].y * 100, torsoLength),
         torsoAngle |-> angleDegrees(side[3], side[2], side[1])]

SitUpCounter_step(c, m) ==
    IF c.phase = "DOWN" THEN
        IF m.torsoAngle >= c.upTorsoAngle /\ RatGE(m.torsoRaise, c.minTorsoRaise)
        THEN [c EXCEPT !.phase = "UP"] ELSE c
    ELSE IF c.phase = "UP" THEN
        IF m.torsoAngle <= c.downTorsoAngle /\ RatLE(m.torsoRaise, 5)
        THEN [c EXCEPT !.repCount = c.repCount + 1, !.phase = "DOWN"] ELSE c
    ELSE c

SitUpCounter_update(c, pose) ==
    LET side == selectTorsoSide(pose.rawLandmarks) IN
    IF ~pose.valid THEN
        Result(c, ExerciseState(c.repCount, c.phase, <<"No pose detected">>, TRUE), NULL)
    ELSE IF side = NULL THEN
        Result(c, ExerciseState(c.repCount, c.phase, <<"Torso not visible">>, TRUE), NULL)
    ELSE
        LET m == SitUpCounter_measure(c, side)
            c2 == SitUpCounter_step(
                      [c EXCEPT !.hipYBase = <<m.hipYBase>>, !.torsoLength = <<m.torsoLength>>], m)
            w1 == IF c2.phase = "DOWN" /\ m.torsoAngle > c.downTorsoAngle + 10
                  THEN <<"Lie back further">> ELSE <<>>
            w2 == IF c2.phase = "UP" /\ m.torsoAngle < c.upTorsoAngle - 5
                  THEN <<"Come up higher">> ELSE <<>>
        IN  Result(c2, ExerciseState(c2.repCount, c2.phase, w1 \o w2, TRUE), NULL)

\* ----------------------------------------------------------- PullUpCounter
\* thresholds: heights and depths in U, gripWidthMin in pct
PullUpCounter(variant) ==
    [cls |-> "PullUp", repCount |-> 0, phase |-> "WAITING_BAR", barY |-> NULL,
     variant |-> variant,
     thresholds |-> [chinAboveBar |-> 1500, bottomResetDelta |-> 8000,
                     gripWidthMin |-> 15, maxFaceDepthDelta |-> 15000,
                     wristBarYDelta |-> 8000]]

PullUpCounter_requiredJoints ==
    {"nose", "left_wrist", "right_wrist", "left_shoulder", "right_shoulder"}

PullUpCounter_reset(c) ==
    [c EXCEPT !.repCount = 0, !.phase = "WAITING_BAR", !.barY = NULL]

\* conditions in which the chin counts as over the bar at any depth
PullUpCounter_conditions_anyDepth(c, lm, barY) ==
    LET noseY == lm["nose"].y * 100
        noseZ == lm["nose"].z * 100
        shoulderZ == Mean2(lm["left_shoulder"].z, lm["right_shoulder"].z)
        wristAvgY == Mean2(lm["left_wrist"].y, lm["right_wrist"].y)
        depthOk == shoulderZ - noseZ <= c.thresholds.maxFaceDepthDelta
        wristsOnBar == Abs(wristAvgY - barY) <= c.thresholds.wristBarYDelta
    IN  [depthOk |-> depthOk, wristsOnBar |-> wristsOnBar,
         chinAbove |-> barY - noseY > c.thresholds.chinAboveBar /\ wristsOnBar,
         chinBelow |-> noseY - barY > c.thresholds.bottomResetDelta]

PullUpCounter_conditions(c, lm, barY) ==
    LET noseY == lm["nose"].y * 100
        noseZ == lm["nose"].z * 100
        shoulderZ == Mean2(lm["left_shoulder"].z, lm["right_shoulder"].z)
        wristAvgY == Mean2(lm["left_wrist"].y, lm["right_wrist"].y)
        depthOk == shoulderZ - noseZ <= c.thresholds.maxFaceDepthDelta
        wristsOnBar == Abs(wristAvgY - barY) <= c.thresholds.wristBarYDelta
    IN  [depthOk |-> depthOk, wristsOnBar |-> wristsOnBar,
         chinAbove |-> barY - noseY > c.thresholds.chinAboveBar
                       /\ depthOk /\ wristsOnBar,
         chinBelow |-> noseY - barY > c.thresholds.bottomResetDelta]

PullUpCounter_step(c, q) ==
    IF c.phase = "WAITING_BAR" \/ c.phase = "DOWN" THEN
        IF q.chinAbove THEN [c EXCEPT !.phase = "UP"] ELSE c
    ELSE IF c.phase = "UP" THEN
        IF q.chinBelow
        THEN [c EXCEPT !.repCount = c.repCount + 1, !.phase = "DOWN"] ELSE c
    ELSE c

PullUpCounter_update(c, pose, barY) ==
    LET lm == pose.rawLandmarks IN
    IF ~pose.valid THEN
        Result(c, ExerciseState(c.repCount, c.phase, <<"No pose detected">>, TRUE), NULL)
    ELSE IF barY = NULL THEN
        Result(c, ExerciseState(c.repCount, "WAITING_BAR", <<"Bar not found">>, TRUE), NULL)
    ELSE IF ~Present(lm, PullUpCounter_requiredJoints) THEN
        Result([c EXCEPT !.barY = barY],
               ExerciseState(c.repCount, c.phase, <<"Upper body not visible">>, TRUE), NULL)
    ELSE
        LET wristDist == distance2d(lm["left_wrist"], lm["right_wrist"])
            shoulderWidth == distance2d(lm["left_shoulder"], lm["right_shoulder"])
            q == PullUpCounter_conditions(c, lm, barY[1])
            c2 == PullUpCounter_step([c EXCEPT !.barY = barY], q)
            w1 == IF wristDist * 100 < c.thresholds.gripWidthMin * Max1e5(shoulderWidth)
                  THEN <<"Wider grip for pull-ups">> ELSE <<>>
            w2 == IF ~q.depthOk THEN <<"Move back from camera">> ELSE <<>>
            w3 == IF ~q.wristsOnBar THEN <<"Keep wrists on the bar">> ELSE <<>>
            w4 == IF c.variant = "chinup" /\ wristDist * 10 > shoulderWidth * 14
                  THEN <<"Narrower grip for chin-ups">> ELSE <<>>
        IN  Result(c2, ExerciseState(c2.repCount, c2.phase, w1 \o w2 \o w3 \o w4, TRUE),
                   NULL)

\* ------------------------------------------------------------- HoldCounter
\* holdSeconds is kept in ms; holdCondition is named by the registry entry
HoldCounter(name, requiredJoints, holdMs, requiredAnyGroups) ==
    [cls |-> "Hold", name |-> name, requiredJoints |-> requiredJoints,
     repCount |-> 0, phase |-> "READY", holdSeconds |-> holdMs,
     holdStart |-> NULL, requiredAnyGroups |-> requiredAnyGroups]

HoldCounter_reset(c) ==
    [c EXCEPT !.repCount = 0, !.phase = "READY", !.holdStart = NULL]

\* lm.left_x ?? lm.right_x
Either(lm, l, r) ==
    IF l \in DOMAIN lm THEN <<lm[l]>> ELSE IF r \in DOMAIN lm THEN <<lm[r]>> ELSE NULL

\* the hold predicates of the registry, by entry name
holdCondition(name, lm) ==
    LET shoulder == Either(lm, "left_shoulder", "right_shoulder")
        hip == Either(lm, "left_hip", "right_hip")
        knee == Either(lm, "left_knee", "right_knee")
        ankle == Either(lm, "left_ankle", "right_ankle")
    IN  IF name \in {"plank_hold", "side_plank_hold", "glute_bridge", "hip_hinge"}
        THEN IF shoulder = NULL \/ hip = NULL \/ knee = NULL THEN FALSE
             ELSE LET a == angleDegrees(shoulder[1], hip[1], knee[1])
                  IN  CASE name = "plank_hold" -> a > 160
                        [] name = "hip_hinge" -> a >= 60 /\ a <= 110
                        [] OTHER -> a > 155
        ELSE IF hip = NULL \/ knee = NULL \/ ankle = NULL THEN FALSE
             ELSE LET a == angleDegrees(hip[1], knee[1], ankle[1])
                  IN  IF name = "wall_sit_hold" THEN a >= 80 /\ a <= 110
                      ELSE a >= 80 /\ a <= 115

\* HoldCounter_visible_leftOnly differs from HoldCounter_visible in asking
\* for the required joints even when groups are configured
HoldCounter_visible_leftOnly(c, lm) ==
    Present(lm, c.requiredJoints)

\* the visibility check: any group complete when groups are configured,
\* else every required joint
HoldCounter_visible(c, lm) ==
    IF c.requiredAnyGroups # NULL
    THEN \E group \in c.requiredAnyGroups[1] : Present(lm, group)
    ELSE Present(lm, c.requiredJoints)

\* a machine that counts again for every further hold time in COUNTED
HoldCounter_step_repeat(c, holding, t) ==
    IF c.phase = "READY" THEN
        IF holding THEN [c EXCEPT !.phase = "HOLDING", !.holdStart = <<t>>] ELSE c
    ELSE IF c.phase = "HOLDING" THEN
        IF ~holding THEN [c EXCEPT !.phase = "READY", !.holdStart = NULL]
        ELSE IF c.holdStart # NULL /\ c.holdStart[1] # 0
                /\ t - c.holdStart[1] >= c.holdSeconds
             THEN [c EXCEPT !.repCount = c.repCount + 1, !.phase = "COUNTED"]
             ELSE c
    ELSE IF c.phase = "COUNTED" THEN
        IF ~holding THEN [c EXCEPT !.phase = "READY", !.holdStart = NULL]
        ELSE IF t - c.holdStart[1] >= 2 * c.holdSeconds
             THEN [c EXCEPT !.repCount = c.repCount + 1, !.holdStart = <<t>>]
             ELSE c
    ELSE c

\* READY / HOLDING / COUNTED; a holdStart of 0 is falsy in the source
HoldCounter_step(c, holding, t) ==
    IF c.phase = "READY" THEN
        IF holding THEN [c EXCEPT !.phase = "HOLDING", !.holdStart = <<t>>] ELSE c
    ELSE IF c.phase = "HOLDING" THEN
        IF ~holding THEN [c EXCEPT !.phase = "READY", !.holdStart = NULL]
        ELSE IF c.holdStart # NULL /\ c.holdStart[1] # 0
                /\ t - c.holdStart[1] >= c.holdSeconds
             THEN [c EXCEPT !.repCount = c.repCount + 1, !.phase = "COUNTED"]
             ELSE c
    ELSE IF c.phase = "COUNTED" THEN
        IF ~holding THEN [c EXCEPT !.phase = "READY", !.holdStart = NULL] ELSE c
    ELSE c

\* `Hold ${remaining.toFixed(1)}s`, remaining in ms
HoldWarning(remaining) ==
    LET tenths == (remaining + 50) \div 100
    IN  "Hold " \o ToString(tenths \div 10) \o "." \o ToString(tenths % 10) \o "s"

\* an update in which a lost pose also breaks the hold
HoldCounter_update_breakHold(c, pose, t) ==
    LET lm == pose.rawLandmarks IN
    IF ~pose.valid THEN
        Result([c EXCEPT !.phase = "READY", !.holdStart = NULL],
               ExerciseState(c.repCount, c.phase, <<"No pose detected">>, TRUE), NULL)
    ELSE IF ~HoldCounter_visible(c, lm) THEN
        Result(c, ExerciseState(c.repCount, c.phase, <<"Body not visible">>, TRUE), NULL)
    ELSE
        LET holding == holdCondition(c.name, lm)
            c2 == HoldCounter_step(c, holding, t)
            start == IF c2.holdStart = NULL THEN t ELSE c2.holdStart[1]
            remaining == Max(0, c.holdSeconds - (t - start))
            w == IF c2.phase = "HOLDING" THEN <<HoldWarning(remaining)>> ELSE <<>>
        IN  Result(c2, ExerciseState(c2.repCount, c2.phase, w, TRUE), <<t>>)

HoldCounter_update(c, pose, t) ==
    LET lm == pose.rawLandmarks IN
    IF ~pose.valid THEN
        Result(c, ExerciseState(c.repCount, c.phase, <<"No pose detected">>, TRUE), NULL)
    ELSE IF ~HoldCounter_visible(c, lm) THEN
        Result(c, ExerciseState(c.repCount, c.phase, <<"Body not visible">>, TRUE), NULL)
    ELSE
        LET holding == holdCondition(c.name, lm)
            c2 == HoldCounter_step(c, holding, t)
            start == IF c2.holdStart = NULL THEN t ELSE c2.holdStart[1]
            remaining == Max(0, c.holdSeconds - (t - start))
            w == IF c2.phase = "HOLDING" THEN <<HoldWarning(remaining)>> ELSE <<>>
        IN  Result(c2, ExerciseState(c2.repCount, c2.phase, w, TRUE), <<t>>)

\* ----------------------------------------------------------- PushUpCounter
PushUpCounter ==
    [cls |-> "PushUp", repCount |-> 0, phase |-> "CALIBRATING", repValid |-> TRUE,
     thresholds |-> NULL, calibration |-> NULL,
     lastShoulderY |-> NULL, lastTime |-> NULL, badHipFrames |-> 0]

PushUpCounter_requiredJoints ==
    {"left_shoulder", "right_shoulder", "left_elbow", "right_elbow",
     "left_wrist", "right_wrist"}

\* a setCalibration that also starts the count again
PushUpCounter_setCalibration_recount(c, calibration) ==
    [c EXCEPT !.calibration = <<calibration>>,
              !.thresholds = <<[topElbowAngle |-> calibration.topElbowAngle,
                                bottomElbowAngle |->
                                    Max(40, calibration.topElbowAngle - 80),
                                minShoulderDrop |-> 25,
                                hipDeviationTolerance |-> 25,
                                topDropTolerance |-> 10]>>,
              !.phase = "TOP", !.repValid = TRUE, !.repCount = 0]

\* calibration: [topElbowAngle (degrees), shoulderYTop, hipYTop, torsoLength (U)]
PushUpCounter_setCalibration(c, calibration) ==
    [c EXCEPT !.calibration = <<calibration>>,
              !.thresholds = <<[topElbowAngle |-> calibration.topElbowAngle,
                                bottomElbowAngle |->
                                    Max(40, calibration.topElbowAngle - 80),
                                minShoulderDrop |-> 25,
                                hipDeviationTolerance |-> 25,
                                topDropTolerance |-> 10]>>,
              !.phase = "TOP", !.repValid = TRUE]

\* a reset that keeps the calibration
PushUpCounter_reset_keep(c) ==
    [c EXCEPT !.repCount = 0, !.phase = "CALIBRATING", !.repValid = TRUE,
              !.lastShoulderY = NULL, !.lastTime = NULL, !.badHipFrames = 0]

PushUpCounter_reset(c) ==
    [c EXCEPT !.repCount = 0, !.phase = "CALIBRATING", !.repValid = TRUE,
              !.thresholds = NULL, !.calibration = NULL, !.lastShoulderY = NULL,
              !.lastTime = NULL, !.badHipFrames = 0]

\* the measurements of a complete frame; elbowAngle2 is twice the mean of the
\* two elbow angles, hipDeviation is NULL when a hip is absent
PushUpCounter_measure(c, pose) ==
    LET lm == pose.rawLandmarks
        leftElbowAngle == angleDegrees(lm["left_shoulder"], lm["left_elbow"],
                                       lm["left_wrist"])
        rightElbowAngle == angleDegrees(lm["right_shoulder"], lm["right_elbow"],
                                        lm["right_wrist"])
        shoulderY == Mean2(lm["left_shoulder"].y, lm["right_shoulder"].y)
        hipY == IF "left_hip" \in DOMAIN lm /\ "right_hip" \in DOMAIN lm
                THEN <<Mean2(lm["left_hip"].y, lm["right_hip"].y)>> ELSE NULL
        torsoLength == c.calibration[1].torsoLength
    IN  [elbowAngle2 |-> leftElbowAngle + rightElbowAngle,
         shoulderY |-> shoulderY,
         shoulderDrop |-> Rat(shoulderY - c.calibration[1].shoulderYTop, torsoLength),
         hipDeviation |-> IF hipY # NULL
                          THEN <<Rat(Abs(hipY[1] - c.calibration[1].hipYTop), torsoLength)>>
                          ELSE NULL,
         velocity |-> IF c.lastShoulderY # NULL /\ c.lastTime # NULL
                      THEN computeVelocity(c.lastShoulderY[1], c.lastTime[1], shoulderY,
                                           pose.timestamp)
                      ELSE NULL]

\* a hip check that gives up on the rep after 4 bad frames
PushUpCounter_hipCheck_four(c, m) ==
    IF m.hipDeviation # NULL THEN
        LET bad == IF RatGT(m.hipDeviation[1], c.thresholds[1].hipDeviationTolerance)
                   THEN c.badHipFrames + 1 ELSE 0
        IN  [c EXCEPT !.badHipFrames = bad,
                      !.repValid = IF bad >= 4 THEN FALSE ELSE c.repValid]
    ELSE c

\* the rolling bad-hip-frame counter
PushUpCounter_hipCheck(c, m) ==
    IF m.hipDeviation # NULL THEN
        LET bad == IF RatGT(m.hipDeviation[1], c.thresholds[1].hipDeviationTolerance)
                   THEN c.badHipFrames + 1 ELSE 0
        IN  [c EXCEPT !.badHipFrames = bad,
                      !.repValid = IF bad >= 5 THEN FALSE ELSE c.repValid]
    ELSE c

\* a machine that forgives the hips once the push-up rises
PushUpCounter_step_forgiving(c, m) ==
    IF c.phase = "TOP" THEN
        IF m.elbowAngle2 < 2 * (c.thresholds[1].topElbowAngle - 10)
           /\ RatGT(m.shoulderDrop, 5)
        THEN [c EXCEPT !.phase = "DOWN", !.repValid = TRUE, !.badHipFrames = 0]
        ELSE c
    ELSE IF c.phase = "DOWN" THEN
        IF m.elbowAngle2 <= 2 * c.thresholds[1].bottomElbowAngle
           /\ RatGE(m.shoulderDrop, c.thresholds[1].minShoulderDrop)
        THEN [c EXCEPT !.phase = "BOTTOM"] ELSE c
    ELSE IF c.phase = "BOTTOM" THEN
        IF m.velocity # NULL /\ RatLT(m.velocity[1], -2)
           /\ m.elbowAngle2 > 2 * (c.thresholds[1].bottomElbowAngle + 5)
        THEN [c EXCEPT !.phase = "UP", !.repValid = TRUE] ELSE c
    ELSE IF c.phase = "UP" THEN
        IF m.elbowAngle2 >= 2 * (c.thresholds[1].topElbowAngle - 5)
           /\ RatLE(m.shoulderDrop, c.thresholds[1].topDropTolerance)
        THEN [c EXCEPT !.repCount = IF c.repValid THEN c.repCount + 1
                                                  ELSE c.repCount,
                       !.phase = "TOP"]
        ELSE c
    ELSE c

\* TOP -> DOWN -> BOTTOM -> UP -> TOP
PushUpCounter_step(c, m) ==
    IF c.phase = "TOP" THEN
        IF m.elbowAngle2 < 2 * (c.thresholds[1].topElbowAngle - 10)
           /\ RatGT(m.shoulderDrop, 5)
        THEN [c EXCEPT !.phase = "DOWN", !.repValid = TRUE, !.badHipFrames = 0]
        ELSE c
    ELSE IF c.phase = "DOWN" THEN
        IF m.elbowAngle2 <= 2 * c.thresholds[1].bottomElbowAngle
           /\ RatGE(m.shoulderDrop, c.thresholds[1].minShoulderDrop)
        THEN [c EXCEPT !.phase = "BOTTOM"] ELSE c
    ELSE IF c.phase = "BOTTOM" THEN
        IF m.velocity # NULL /\ RatLT(m.velocity[1], -2)
           /\ m.elbowAngle2 > 2 * (c.thresholds[1].bottomElbowAngle + 5)
        THEN [c EXCEPT !.phase = "UP"] ELSE c
    ELSE IF c.phase = "UP" THEN
        IF m.elbowAngle2 >= 2 * (c.thresholds[1].topElbowAngle - 5)
           /\ RatLE(m.shoulderDrop, c.thresholds[1].topDropTolerance)
        THEN [c EXCEPT !.repCount = IF c.repValid THEN c.repCount + 1
                                                  ELSE c.repCount,
                       !.phase = "TOP"]
        ELSE c
    ELSE c

PushUpCounter_update(c, pose) ==
    LET lm == pose.rawLandmarks IN
    IF ~pose.valid THEN
        Result(c, ExerciseState(c.repCount, c.phase, <<"No pose detected">>, c.repValid),
               NULL)
    ELSE IF c.thresholds = NULL \/ c.calibration = NULL THEN
        Result(c, ExerciseState(c.repCount, "CALIBRATING", <<"Calibrating...">>,
                                c.repValid), NULL)
    ELSE IF ~Present(lm, PushUpCounter_requiredJoints) THEN
        Result(c, ExerciseState(c.repCount, c.phase, <<"Arms/shoulders not visible">>,
                                c.repValid), NULL)
    ELSE
        LET m == PushUpCounter_measure(c, pose)
            c1 == [c EXCEPT !.lastShoulderY = <<m.shoulderY>>,
                            !.lastTime = <<pose.timestamp>>]
            c2 == PushUpCounter_hipCheck(c1, m)
            c3 == PushUpCounter_step(c2, m)
            w1 == IF m.hipDeviation = NULL
                  THEN <<"Hips not visible (stability not checked)">>
                  ELSE IF c2.badHipFrames >= 5 THEN <<"Keep hips stable">> ELSE <<>>
            w2 == IF c2.phase = "UP" /\ c3.phase = "TOP" /\ ~c2.repValid
                  THEN <<"Rep not counted">> ELSE <<>>
            w3 == IF c3.phase \in {"DOWN", "BOTTOM"}
                     /\ m.elbowAngle2 > 2 * (c.thresholds[1].bottomElbowAngle + 10)
                  THEN <<"Go lower">> ELSE <<>>
        IN  Result(c3, ExerciseState(c3.repCount, c3.phase, w1 \o w2 \o w3, c3.repValid),
                   <<pose.timestamp>>)

\* ------------------------------------------------------- PassiveCalibrator
\* durationMs in ms; the four sample lists are kept in push order, the elbow
\* samples as twice the mean elbow angle
PassiveCalibrator(durationMs) ==
    [durationMs |-> durationMs, startTime |-> NULL, elbowAngles |-> <<>>,
     shoulderYs |-> <<>>, hipYs |-> <<>>, torsoLengths |-> <<>>]

PassiveCalibrator_reset(k) ==
    [k EXCEPT !.startTime = NULL, !.elbowAngles = <<>>, !.shoulderYs = <<>>,
              !.hipYs = <<>>, !.torsoLengths = <<>>]

PassiveCalibrator_required ==
    {"left_shoulder", "right_shoulder", "left_elbow", "right_elbow",
     "left_wrist", "right_wrist", "left_hip", "right_hip"}

\* the CalibrationResult of the samples of k; topElbowAngle in whole degrees
CalibrationResult(k) ==
    [topElbowAngle |-> median(k.elbowAngles) \div 2,
     shoulderYTop |-> median(k.shoulderYs),
     hipYTop |-> median(k.hipYs),
     torsoLength |-> Max1e5(median(k.torsoLengths))]

\* an update that starts the window at the first complete frame
PassiveCalibrator_update_lateStart(k, pose, t1, t2) ==
    LET lm == pose.rawLandmarks IN
    IF ~pose.valid \/ ~Present(lm, PassiveCalibrator_required)
    THEN [k |-> k, result |-> NULL, clock |-> NULL]
    ELSE
        LET startTime == IF k.startTime = NULL THEN t1 ELSE k.startTime[1]
            leftElbowAngle == angleDegrees(lm["left_shoulder"],
                                           lm["left_elbow"], lm["left_wrist"])
            rightElbowAngle == angleDegrees(lm["right_shoulder"],
                                            lm["right_elbow"], lm["right_wrist"])
            shoulderY == Mean2(lm["left_shoulder"].y, lm["right_shoulder"].y)
            hipY == Mean2(lm["left_hip"].y, lm["right_hip"].y)
            k2 == [k EXCEPT
                      !.startTime = <<startTime>>,
                      !.elbowAngles = Append(k.elbowAngles,
                                             leftElbowAngle + rightElbowAngle),
                      !.shoulderYs = Append(k.shoulderYs, shoulderY),
                      !.hipYs = Append(k.hipYs, hipY),
                      !.torsoLengths =
                          Append(k.torsoLengths,
                                 distance2d(lm["left_shoulder"], lm["left_hip"]))]
            tCheck == IF k.startTime = NULL THEN t2 ELSE t1
        IN  IF tCheck - startTime < k.durationMs
            THEN [k |-> k2, result |-> NULL, clock |-> <<tCheck>>]
            ELSE [k |-> k2, result |-> <<CalibrationResult(k2)>>,
                  clock |-> <<tCheck>>]

\* update(pose): [k: the calibrator after the call, result: NULL or
\* <<CalibrationResult>>, clock: the last clock reading of the call or NULL].
\* t1, t2: the readings of the first and second performance.now() of the call
PassiveCalibrator_update(k, pose, t1, t2) ==
    LET lm == pose.rawLandmarks IN
    IF ~pose.valid THEN [k |-> k, result |-> NULL, clock |-> NULL]
    ELSE
        LET startTime == IF k.startTime = NULL THEN t1 ELSE k.startTime[1]
            started == IF k.startTime = NULL THEN <<t1>> ELSE NULL
            k1 == [k EXCEPT !.startTime = <<startTime>>]
        IN  IF ~Present(lm, PassiveCalibrator_required)
            THEN [k |-> k1, result |-> NULL, clock |-> started]
            ELSE
                LET leftElbowAngle == angleDegrees(lm["left_shoulder"],
                                                   lm["left_elbow"], lm["left_wrist"])
                    rightElbowAngle == angleDegrees(lm["right_shoulder"],
                                                    lm["right_elbow"], lm["right_wrist"])
                    shoulderY == Mean2(lm["left_shoulder"].y, lm["right_shoulder"].y)
                    hipY == Mean2(lm["left_hip"].y, lm["right_hip"].y)
                    k2 == [k1 EXCEPT
                              !.elbowAngles = Append(k.elbowAngles,
                                                     leftElbowAngle + rightElbowAngle),
                              !.shoulderYs = Append(k.shoulderYs, shoulderY),
                              !.hipYs = Append(k.hipYs, hipY),
                              !.torsoLengths =
                                  Append(k.torsoLengths,
                                         distance2d(lm["left_shoulder"], lm["left_hip"]))]
                    tCheck == IF k.startTime = NULL THEN t2 ELSE t1
                IN  IF tCheck - startTime < k.durationMs
                    THEN [k |-> k2, result |-> NULL, clock |-> <<tCheck>>]
                    ELSE [k |-> k2, result |-> <<CalibrationResult(k2)>>,
                          clock |-> <<tCheck>>]

\* ---------------------------------------------------------------- registry
\* getExerciseEntries(): the ids, in order
EntryIds ==
    <<"jumping_jack", "squat", "pullup", "chinup", "situp", "pushup",
      "step_jack", "half_jack", "seal_jack", "side_steps", "high_knees",
      "marching", "arm_raises", "overhead_raises", "lateral_raises", "side_bends",
      "wide_squat", "narrow_squat", "half_squat", "pulse_squat", "jump_squat",
      "forward_lunge", "reverse_lunge", "split_squat", "side_lunge",
      "plank_hold", "side_plank_hold", "wall_sit_hold", "glute_bridge",
      "hip_hinge", "knee_tucks",
      "skater_steps", "toe_touches", "arm_pulses", "fast_jacks", "slow_jacks",
      "low_jacks", "power_jacks", "box_squat", "tempo_squat", "split_squat_hold">>

Entries == {EntryIds[i] : i \in 1..Len(EntryIds)}

usesBar(id) == id \in {"pullup", "chinup"}

TorsoGroups ==
    {{"left_shoulder", "left_hip", "left_knee"},
     {"right_shoulder", "right_hip", "right_knee"}}

LegGroups ==
    {{"left_hip", "left_knee", "left_ankle"},
     {"right_hip", "right_knee", "right_ankle"}}

\* the hold entries: plankHold, sidePlankHold, wallSitHold, gluteBridgeHold,
\* hipHingeHold, splitSquatHold
holdEntry(id) ==
    CASE id = "plank_hold" ->
           HoldCounter(id, {"left_shoulder", "left_hip", "left_knee"}, 2000, <<TorsoGroups>>)
      [] id = "side_plank_hold" ->
           HoldCounter(id, {"left_shoulder", "left_hip", "left_knee"}, 2000, <<TorsoGroups>>)
      [] id = "wall_sit_hold" ->
           HoldCounter(id, {"left_hip", "left_knee", "left_ankle"}, 2500, <<LegGroups>>)
      [] id = "glute_bridge" ->
           HoldCounter(id, {"left_shoulder", "left_hip", "left_knee"}, 1500, <<TorsoGroups>>)
      [] id = "hip_hinge" ->
           HoldCounter(id, {"left_shoulder", "left_hip", "left_knee"}, 1000, <<TorsoGroups>>)
      [] id = "split_squat_hold" ->
           HoldCounter(id, {"left_hip", "left_knee", "left_ankle"}, 2000, <<LegGroups>>)

\* entry.createCounter(), constructor defaults filled in
createCounter(id) ==
    CASE id = "jumping_jack" -> JumpingJackCounter(2000, 60, 70)
      [] id = "squat" -> SquatCounter(165, 95, 18, 8)
      [] id = "pullup" -> PullUpCounter("pullup")
      [] id = "chinup" -> PullUpCounter("chinup")
      [] id = "situp" -> SitUpCounter
      [] id = "pushup" -> PushUpCounter
      [] id = "step_jack" -> JumpingJackCounter(2000, 45, 50)
      [] id = "half_jack" -> JumpingJackCounter(2000, 35, 40)
      [] id = "seal_jack" -> LegSpreadCounter(60, 20)
      [] id = "side_steps" -> LegSpreadCounter(35, 15)
      [] id = "high_knees" -> KneeRaiseCounter(42, 15)
      [] id = "marching" -> KneeRaiseCounter(25, 12)
      [] id = "arm_raises" -> ArmRaiseCounter(35, 15)
      [] id = "overhead_raises" -> ArmRaiseCounter(55, 20)
      [] id = "lateral_raises" -> ArmRaiseCounter(25, 12)
      [] id = "side_bends" -> TorsoBendCounter(22, 8)
      [] id = "wide_squat" -> SquatCounter(100, 100, 20, 8)
      [] id = "narrow_squat" -> SquatCounter(95, 95, 16, 8)
      [] id = "half_squat" -> SquatCounter(120, 120, 12, 8)
      [] id = "pulse_squat" -> SquatCounter(110, 110, 15, 8)
      [] id = "jump_squat" -> SquatCounter(100, 100, 18, 8)
      [] id = "forward_lunge" -> LungeCounter(165, 95, 18, 8)
      [] id = "reverse_lunge" -> LungeCounter(165, 95, 18, 8)
      [] id = "split_squat" -> LungeCounter(165, 100, 16, 8)
      [] id = "side_lunge" -> LungeCounter(165, 105, 16, 8)
      [] id = "knee_tucks" -> KneeRaiseCounter(30, 12)
      [] id = "skater_steps" -> LegSpreadCounter(50, 20)
      [] id = "toe_touches" -> TorsoBendCounter(28, 10)
      [] id = "arm_pulses" -> ArmRaiseCounter(20, 8)
      [] id = "fast_jacks" -> JumpingJackCounter(1500, 50, 60)
      [] id = "slow_jacks" -> JumpingJackCounter(3000, 70, 75)
      [] id = "low_jacks" -> JumpingJackCounter(2000, 35, 50)
      [] id = "power_jacks" -> JumpingJackCounter(2000, 75, 85)
      [] id = "box_squat" -> SquatCounter(100, 100, 20, 8)
      [] id = "tempo_squat" -> SquatCounter(105, 105, 18, 8)
      [] OTHER -> holdEntry(id)

\* counter.update(pose, barY); t1, t2 are the readings performance.now()
\* would give to the first and the second read of the call
update(c, pose, barY, t1, t2) ==
    CASE c.cls = "JumpingJack" -> JumpingJackCounter_update(c, pose, t1, t2)
      [] c.cls = "ArmRaise" -> ArmRaiseCounter_update(c, pose)
      [] c.cls = "LegSpread" -> LegSpreadCounter_update(c, pose)
      [] c.cls = "KneeRaise" -> KneeRaiseCounter_update(c, pose)
      [] c.cls = "TorsoBend" -> TorsoBendCounter_update(c, pose)
      [] c.cls = "Squat" -> SquatCounter_update(c, pose)
      [] c.cls = "Lunge" -> LungeCounter_update(c, pose)
      [] c.cls = "SitUp" -> SitUpCounter_update(c, pose)
      [] c.cls = "PullUp" -> PullUpCounter_update(c, pose, barY)
      [] c.cls = "Hold" -> HoldCounter_update(c, pose, t1)
      [] c.cls = "PushUp" -> PushUpCounter_update(c, pose)

\* counter.reset()
reset(c) ==
    CASE c.cls = "JumpingJack" -> JumpingJackCounter_reset(c)
      [] c.cls = "ArmRaise" -> ArmRaiseCounter_reset(c)
      [] c.cls = "LegSpread" -> LegSpreadCounter_reset(c)
      [] c.cls = "KneeRaise" -> KneeRaiseCounter_reset(c)
      [] c.cls = "TorsoBend" -> TorsoBendCounter_reset(c)
      [] c.cls = "Squat" -> SquatCounter_reset(c)
      [] c.cls = "Lunge" -> LungeCounter_reset(c)
      [] c.cls = "SitUp" -> SitUpCounter_reset(c)
      [] c.cls = "PullUp" -> PullUpCounter_reset(c)
      [] c.cls = "Hold" -> HoldCounter_reset(c)
      [] c.cls = "PushUp" -> PushUpCounter_reset(c)

\* ------------------------------------------------------------ input frames
\* The landmark names the counters read (a subset of POSE_LANDMARK_NAMES).
Names ==
    {"nose", "left_shoulder", "right_shoulder", "left_elbow", "right_elbow",
     "left_wrist", "right_wrist", "left_hip", "right_hip", "left_knee",
     "right_knee", "left_ankle", "right_ankle"}

LeftNames ==
    {"left_shoulder", "left_elbow", "left_wrist", "left_hip", "left_knee",
     "left_ankle"}

\* a Landmark2D (visibility is not read by the counters)
LM(x, y) == [x |-> x, y |-> y, z |-> 0]

\* a person standing, seen from the front, arms down, feet together
Stand ==
    [k \in Names |->
        CASE k = "nose" -> LM(500, 300)
          [] k = "left_shoulder" -> LM(400, 400)
          [] k = "right_shoulder" -> LM(600, 400)
          [] k = "left_elbow" -> LM(400, 470)
          [] k = "right_elbow" -> LM(600, 470)
          [] k = "left_wrist" -> LM(400, 550)
          [] k = "right_wrist" -> LM(600, 550)
          [] k = "left_hip" -> LM(450, 600)
          [] k = "right_hip" -> LM(550, 600)
          [] k = "left_knee" -> LM(450, 750)
          [] k = "right_knee" -> LM(550, 750)
          [] k = "left_ankle" -> LM(450, 900)
          [] k = "right_ankle" -> LM(550, 900)]

\* both wrists at height y, the ankles dx apart
Arms(lm, y) ==
    [lm EXCEPT !["left_wrist"].y = y, !["right_wrist"].y = y]
Feet(lm, dx) ==
    [lm EXCEPT !["left_ankle"].x = 500 - dx \div 2,
               !["right_ankle"].x = 500 + dx \div 2]
ArmsUp == Arms(Stand, 280)
JackOpen == Feet(ArmsUp, 200)
Mid == Arms(Stand, 400)

\* the shoulders shifted sideways by s
Bend(s) ==
    [Stand EXCEPT !["left_shoulder"].x = 400 + s, !["right_shoulder"].x = 600 + s]

KneeUpL == [Stand EXCEPT !["left_knee"].y = 450]
KneeMidL == [Stand EXCEPT !["left_knee"].y = 560]
KneeUpR == [Stand EXCEPT !["right_knee"].y = 450]

\* hips lowered to y with the knees pushed out to (450 -+ kx, ky)
Squatting(y, kx, ky) ==
    [Stand EXCEPT !["left_hip"].y = y, !["right_hip"].y = y,
                  !["left_knee"] = LM(450 - kx, ky),
                  !["right_knee"] = LM(550 + kx, ky)]
Partial == Squatting(640, 60, 770)
Deep == Squatting(690, 105, 795)

\* seen from the side, on the floor: shoulder, hip and knee of both sides
OnFloor(shoulder, hip, knee) ==
    [Stand EXCEPT !["left_shoulder"] = shoulder, !["right_shoulder"] = shoulder,
                  !["left_hip"] = hip, !["right_hip"] = hip,
                  !["left_knee"] = knee, !["right_knee"] = knee]
Lying == OnFloor(LM(700, 800), LM(500, 800), LM(660, 720))
SatUp == OnFloor(LM(500, 560), LM(500, 760), LM(660, 760))

\* hanging from a bar at height 200: nose at (y, z), wrists at height wy
Hanging(y, z, wy) ==
    [Stand EXCEPT !["nose"] = [x |-> 500, y |-> y, z |-> z],
                  !["left_shoulder"].y = 330, !["right_shoulder"].y = 330,
                  !["left_wrist"].y = wy, !["right_wrist"].y = wy]
Hang == Hanging(300, 0, 200)
Between == Hanging(250, 0, 200)
ChinOver == Hanging(180, 0, 200)
OffBar == Hanging(180, 0, 350)
Lean == Hanging(180, -200, 200)

\* a push-up seen from the side: shoulders at height sy, the forearm along
\* (vx, vy) from the elbow 100 below the shoulder, hips at height hy
Plank(sy, vx, vy, hy) ==
    [Stand EXCEPT !["left_shoulder"] = LM(500, sy), !["right_shoulder"] = LM(500, sy),
                  !["left_elbow"] = LM(500, sy + 100),
                  !["right_elbow"] = LM(500, sy + 100),
                  !["left_wrist"] = LM(500 + vx, sy + 100 + vy),
                  !["right_wrist"] = LM(500 + vx, sy + 100 + vy),
                  !["left_hip"] = LM(800, hy), !["right_hip"] = LM(800, hy)]
PlankTop(hy) == Plank(500, 34, 94, hy)        \* elbows at 160 degrees
PlankMid(hy) == Plank(540, 87, 50, hy)        \* elbows at 120 degrees
PlankLow90(hy) == Plank(620, 100, 0, hy)      \* elbows at 90 degrees
PlankLow(hy) == Plank(620, 98, -18, hy)       \* elbows at 79 degrees

\* landmarks below the visibility threshold are absent
Without(lm, names) == [k \in Names \ names |-> lm[k]]
NoLeft(lm) == Without(lm, LeftNames)
NoHips(lm) == Without(lm, {"left_hip", "right_hip"})
NoBody(lm) == Without(lm, Names \ {"nose"})
Absent == Without(Stand, Names)

PushUpPostures ==
    {PlankTop(520), PlankMid(520), PlankLow90(520), PlankLow(520),
     PlankTop(640), PlankMid(640), PlankLow(640)}

Classes ==
    {"JumpingJack", "ArmRaise", "LegSpread", "KneeRaise", "TorsoBend", "Squat",
     "Lunge", "SitUp", "PullUp", "Hold", "PushUp"}

\* the landmark maps delivered to a counter of each class
Landmarks ==
    [cls \in Classes |->
        CASE cls = "JumpingJack" -> {Stand, JackOpen, ArmsUp, Mid, NoLeft(Stand)}
          [] cls = "ArmRaise" -> {Stand, ArmsUp, Mid, NoLeft(Stand)}
          [] cls = "LegSpread" -> {Stand, JackOpen, Mid, NoLeft(Stand)}
          [] cls = "KneeRaise" ->
               {Stand, KneeUpL, KneeMidL, KneeUpR, NoLeft(Stand), NoLeft(KneeUpR),
                NoBody(Stand)}
          [] cls = "TorsoBend" -> {Stand, Bend(20), Bend(60), NoLeft(Stand)}
          [] cls \in {"Squat", "Lunge"} ->
               {Stand, Partial, Deep, NoLeft(Stand), NoLeft(Deep), NoBody(Stand)}
          [] cls = "SitUp" ->
               {Lying, SatUp, NoLeft(Lying), NoLeft(SatUp), NoBody(Lying)}
          [] cls = "PullUp" -> {Hang, Between, ChinOver, OffBar, Lean, NoLeft(Hang)}
          [] cls = "Hold" ->
               {Stand, Deep, SatUp, Lying, NoLeft(Stand), NoLeft(Deep), NoBody(Stand)}
          [] cls = "PushUp" ->
               PushUpPostures \cup {NoHips(PlankMid(520)), NoLeft(PlankTop(520))}]

\* what the pose model delivers, before the timestamp: a valid frame with
\* its landmarks, or the invalid frame, to which toPoseFrame gives none
Frames ==
    [cls \in Classes |->
        {[valid |-> TRUE, rawLandmarks |-> lm] : lm \in Landmarks[cls]}
            \cup {[valid |-> FALSE, rawLandmarks |-> Absent]}]

\* a PoseFrame
PoseFrame(frame, timestamp) ==
    [valid |-> frame.valid, timestamp |-> timestamp,
     rawLandmarks |-> frame.rawLandmarks]

\* the bar position handed to update: absent, or the bar at height 200 (in U);
\* only a bar entry is given one
BarYs(id) == IF usesBar(id) THEN {NULL, <<20000>>} ELSE {NULL}

\* how far the clock moves between two readings (ms); the first reading of a
\* call is the pose timestamp or the first performance.now(), the second is
\* the jumping-jack counter's second performance.now() in the same call
Dts == {0, 1000}
\* a clock that the call does not read is not advanced
FirstDts(c) ==
    IF \/ c.cls = "Hold"
       \/ c.cls = "PushUp" /\ c.thresholds # NULL
       \/ c.cls = "JumpingJack" /\ c.thresholds = NULL
    THEN Dts ELSE {0}
SecondDts(c) ==
    IF c.cls = "JumpingJack" /\ c.thresholds = NULL /\ c.startTime = NULL
    THEN Dts ELSE {0}

\* setCalibration's argument: a CalibrationResult
Calibrations ==
    {[topElbowAngle |-> 160, shoulderYTop |-> 50000, hipYTop |-> 52000,
      torsoLength |-> 40000]}

\* ------------------------------------------------- what a frame satisfies
\* the joint check of update(): the required joints, or a candidate side or
\* group, are present
JointsVisible(c, lm) ==
    CASE c.cls = "JumpingJack" -> Present(lm, JumpingJackCounter_requiredJoints)
      [] c.cls = "ArmRaise" -> Present(lm, ArmRaiseCounter_requiredJoints)
      [] c.cls = "LegSpread" -> Present(lm, LegSpreadCounter_requiredJoints)
      [] c.cls = "TorsoBend" -> Present(lm, TorsoBendCounter_requiredJoints)
      [] c.cls \in {"KneeRaise", "Squat", "Lunge"} -> selectLegSide(lm) # NULL
      [] c.cls = "SitUp" -> selectTorsoSide(lm) # NULL
      [] c.cls = "PullUp" -> Present(lm, PullUpCounter_requiredJoints)
      [] c.cls = "Hold" -> HoldCounter_visible(c, lm)
      [] c.cls = "PushUp" -> Present(lm, PushUpCounter_requiredJoints)

\* the frame gets as far as the phase machine of counter c: it is valid and
\* complete, the bar is there (pull-up), the counter is calibrated (jumping
\* jack, push-up)
Measured(c, pose, barY) ==
    /\ pose.valid
    /\ JointsVisible(c, pose.rawLandmarks)
    /\ c.cls = "PullUp" => barY # NULL
    /\ c.cls \in {"JumpingJack", "PushUp"} => c.thresholds # NULL

\* what a measured frame satisfies; c carries the baselines the frame was
\* measured against.
\*   open:   the condition that takes the counter out of its rest phase
\*           (CLOSED -> OPEN, DOWN -> UP, CENTER -> BEND, TOP -> DOWN,
\*           WAITING_BAR / DOWN -> UP, READY -> HOLDING)
\*   closed: the condition of the transition that counts (OPEN -> CLOSED,
\*           UP -> DOWN, BEND -> CENTER, UP -> TOP, HOLDING -> COUNTED)
Conditions(c, pose, barY, t) ==
    LET lm == pose.rawLandmarks IN
    CASE c.cls = "JumpingJack" ->
           LET q == JumpingJackCounter_conditions(c.thresholds[1], lm)
           IN  [open |-> q.armsUp /\ q.legsApart,
                closed |-> q.armsDown /\ q.legsTogether]
      [] c.cls = "ArmRaise" ->
           LET m == ArmRaiseCounter_measure(c, lm)
           IN  [open |-> RatGE(m.armRaise, c.raiseDelta),
                closed |-> RatGE(m.armLower, c.lowerDelta)]
      [] c.cls = "LegSpread" ->
           LET m == LegSpreadCounter_measure(c, lm)
           IN  [open |-> RatGE(m.spread, c.spreadDelta),
                closed |-> RatLE(m.spread, c.closeDelta)]
      [] c.cls = "KneeRaise" ->
           LET m == KneeRaiseCounter_measure(c, selectLegSide(lm))
           IN  [open |-> RatGE(m.kneeRaise, c.raiseDelta),
                closed |-> RatLE(m.kneeRaise, c.lowerDelta)]
      [] c.cls = "TorsoBend" ->
           LET m == TorsoBendCounter_measure(c, lm)
           IN  [open |-> RatGE(m.bend, c.bendDelta),
                closed |-> RatLE(m.bend, c.returnDelta)]
      [] c.cls \in {"Squat", "Lunge"} ->
           LET m == SquatCounter_measure(c, selectLegSide(lm))
           IN  [open |-> m.kneeAngle < c.topKneeAngle /\ RatGT(m.hipDrop, c.startDrop),
                closed |-> m.kneeAngle >= c.topKneeAngle - 5
                           /\ RatLE(m.hipDrop, IF c.cls = "Squat" THEN 4 ELSE 5)]
      [] c.cls = "SitUp" ->
           LET m == SitUpCounter_measure(c, selectTorsoSide(lm))
           IN  [open |-> m.torsoAngle >= c.upTorsoAngle
                         /\ RatGE(m.torsoRaise, c.minTorsoRaise),
                closed |-> m.torsoAngle <= c.downTorsoAngle /\ RatLE(m.torsoRaise, 5)]
      [] c.cls = "PullUp" ->
           LET q == PullUpCounter_conditions(c, lm, barY[1])
           IN  [open |-> q.chinAbove, closed |-> q.chinBelow]
      [] c.cls = "Hold" ->
           LET holding == holdCondition(c.name, lm)
           IN  [open |-> holding,
                closed |-> /\ holding
                           /\ c.holdStart # NULL /\ c.holdStart[1] # 0
                           /\ t - c.holdStart[1] >= c.holdSeconds]
      [] c.cls = "PushUp" ->
           LET m == PushUpCounter_measure(c, pose)
           IN  [open |-> m.elbowAngle2 < 2 * (c.thresholds[1].topElbowAngle - 10)
                         /\ RatGT(m.shoulderDrop, 5),
                closed |-> m.elbowAngle2 >= 2 * (c.thresholds[1].topElbowAngle - 5)
                           /\ RatLE(m.shoulderDrop, c.thresholds[1].topDropTolerance)]

\* the hip line of a frame measured by push-up counter c: "bad" when the hip
\* deviation is above the tolerance, "good" when it is not, "none" when a
\* hip is absent (and for every other counter)
HipLine(c, pose) ==
    IF c.cls # "PushUp" THEN "none"
    ELSE LET m == PushUpCounter_measure(c, pose)
         IN  IF m.hipDeviation = NULL THEN "none"
             ELSE IF RatGT(m.hipDeviation[1], c.thresholds[1].hipDeviationTolerance)
                  THEN "bad" ELSE "good"

\* ---------------------------------------------------------------- observer
\* what one delivered frame satisfied, as counter c measured it
Kind(c, pose, barY, t) ==
    IF Measured(c, pose, barY)
    THEN LET q == Conditions(c, pose, barY, t)
         IN  [measured |-> TRUE, open |-> q.open, closed |-> q.closed,
              hips |-> HipLine(c, pose)]
    ELSE [measured |-> FALSE, open |-> FALSE, closed |-> FALSE, hips |-> "none"]

NoFrame == [measured |-> FALSE, open |-> FALSE, closed |-> FALSE, hips |-> "none"]

\* hist: last         what the last delivered frame satisfied
\*       lastMeasured what the last measured frame satisfied
\*       sawOpen      a frame since the last count or reset satisfied the
\*                    enter condition
\*       sawBottom    the phase has been BOTTOM since it last was TOP
\*       badRun       push-up: how many frames in a row, up to the last one,
\*                    were delivered in BOTTOM with the hips out of line
\*       sixBad       push-up: badRun has been 6 since the rep began
\*       badDown      push-up: a frame with the hips out of line was
\*                    delivered in DOWN or BOTTOM since the rep began
\*       badStreak    push-up: how many delivered frames in a row, up to the
\*                    last one, had the hips out of line (5 for 5 or more)
\*       badSeen      push-up: how many frames had the hips out of line
\*                    since the rep began or a frame had them in line (5 for
\*                    5 or more)
NoHistory ==
    [last |-> NoFrame, lastMeasured |-> NoFrame, sawOpen |-> FALSE,
     sawBottom |-> FALSE, badRun |-> 0, sixBad |-> FALSE, badDown |-> FALSE,
     badStreak |-> 0, badSeen |-> 0]

\* the frame that took push-up counter c to c2 had the hips out of line
BadHipFrame(c, c2) ==
    c.cls = "PushUp" /\ c2.badHipFrames = c.badHipFrames + 1

\* the update that took push-up counter c to c2 began a rep
RepBegins(c, c2) == c.phase = "TOP" /\ c2.phase = "DOWN"

\* the observer after an update that took counter c to c2 on a frame of kind k
Observe(h, c, c2, k) ==
    LET badRun == IF BadHipFrame(c, c2) /\ c.phase = "BOTTOM"
                  THEN Min(h.badRun + 1, 6) ELSE 0
    IN  [last |-> k,
         lastMeasured |-> IF k.measured THEN k ELSE h.lastMeasured,
         sawOpen |-> IF c2.repCount # c.repCount THEN FALSE ELSE h.sawOpen \/ k.open,
         sawBottom |-> IF c2.phase = "TOP" THEN FALSE
                       ELSE h.sawBottom \/ c2.phase = "BOTTOM",
         badRun |-> badRun,
         sixBad |-> IF RepBegins(c, c2) THEN FALSE ELSE h.sixBad \/ badRun = 6,
         badDown |-> IF RepBegins(c, c2) THEN FALSE
                     ELSE \/ h.badDown
                          \/ BadHipFrame(c, c2) /\ c.phase \in {"DOWN", "BOTTOM"},
         badStreak |-> IF k.hips = "bad" THEN Min(h.badStreak + 1, 5) ELSE 0,
         badSeen |-> IF RepBegins(c, c2) \/ k.hips = "good" THEN 0
                     ELSE IF k.hips = "bad" THEN Min(h.badSeen + 1, 5)
                     ELSE h.badSeen]

\* ---------------------------------------------------------------- toPoseFrame
\* POSE_LANDMARK_NAMES, in the order of the pose model's output array
POSE_LANDMARK_NAMES ==
    <<"nose", "left_eye_inner", "left_eye", "left_eye_outer", "right_eye_inner",
      "right_eye", "right_eye_outer", "left_ear", "right_ear", "mouth_left",
      "mouth_right", "left_shoulder", "right_shoulder", "left_elbow",
      "right_elbow", "left_wrist", "right_wrist", "left_pinky", "right_pinky",
      "left_index", "right_index", "left_thumb", "right_thumb", "left_hip",
      "right_hip", "left_knee", "right_knee", "left_ankle", "right_ankle",
      "left_heel", "right_heel", "left_foot_index", "right_foot_index">>

\* normalizeLandmarks: the raw landmarks unchanged when a hip is absent, else
\* centred on the hip midpoint and divided by the shoulder width (the hip
\* width without both shoulders; 1 when that width is below 1e-5, which in
\* thousandths is 0).  The quotients are floored to thousandths.
normalizeLandmarks(rawLandmarks) ==
    IF ~Present(rawLandmarks, {"left_hip", "right_hip"}) THEN rawLandmarks
    ELSE LET leftHip == rawLandmarks["left_hip"]
             rightHip == rawLandmarks["right_hip"]
             scale == IF Present(rawLandmarks, {"left_shoulder", "right_shoulder"})
                      THEN Abs(rawLandmarks["left_shoulder"].x
                               - rawLandmarks["right_shoulder"].x)
                      ELSE Abs(leftHip.x - rightHip.x)
             safeScale == IF scale = 0 THEN 1000 ELSE scale
         IN  [name \in DOMAIN rawLandmarks |->
                 [x |-> ((2 * rawLandmarks[name].x - (leftHip.x + rightHip.x)) * 1000)
                            \div (2 * safeScale),
                  y |-> ((2 * rawLandmarks[name].y - (leftHip.y + rightHip.y)) * 1000)
                            \div (2 * safeScale),
                  z |-> (rawLandmarks[name].z * 1000) \div safeScale,
                  visibility |-> rawLandmarks[name].visibility]]

\* lm.visibility ?? 0, of a landmark of the pose model's array
visibilityOr0(lm) == IF lm.visibility = NULL THEN 0 ELSE lm.visibility[1]

\* the Landmark2D made of a landmark of the array
Landmark2D(lm) == [x |-> lm.x, y |-> lm.y, z |-> lm.z, visibility |-> visibilityOr0(lm)]

\* toPoseFrame_strict differs from toPoseFrame in dropping a landmark whose
\* visibility is exactly the threshold
toPoseFrame_strict(landmarks, timestampMs, imageSize, visibilityThreshold) ==
    IF landmarks = NULL \/ Len(landmarks[1]) # Len(POSE_LANDMARK_NAMES)
    THEN [timestamp |-> timestampMs, imageSize |-> imageSize,
          rawLandmarks |-> <<>>, normalizedLandmarks |-> <<>>, valid |-> FALSE]
    ELSE LET arr == landmarks[1]
             seen == {i \in 1..Len(arr) : visibilityOr0(arr[i]) > visibilityThreshold}
             rawLandmarks ==
                 [name \in {POSE_LANDMARK_NAMES[i] : i \in seen} |->
                     Landmark2D(arr[CHOOSE i \in seen : POSE_LANDMARK_NAMES[i] = name])]
         IN  [timestamp |-> timestampMs, imageSize |-> imageSize,
              rawLandmarks |-> rawLandmarks,
              normalizedLandmarks |-> normalizeLandmarks(rawLandmarks),
              valid |-> TRUE]

\* toPoseFrame_lenient differs from toPoseFrame in accepting an array of any
\* length of at least one landmark
toPoseFrame_lenient(landmarks, timestampMs, imageSize, visibilityThreshold) ==
    IF landmarks = NULL \/ Len(landmarks[1]) = 0
    THEN [timestamp |-> timestampMs, imageSize |-> imageSize,
          rawLandmarks |-> <<>>, normalizedLandmarks |-> <<>>, valid |-> FALSE]
    ELSE LET arr == landmarks[1]
             n == Min(Len(arr), Len(POSE_LANDMARK_NAMES))
             seen == {i \in 1..n : visibilityOr0(arr[i]) >= visibilityThreshold}
             rawLandmarks ==
                 [name \in {POSE_LANDMARK_NAMES[i] : i \in seen} |->
                     Landmark2D(arr[CHOOSE i \in seen : POSE_LANDMARK_NAMES[i] = name])]
         IN  [timestamp |-> timestampMs, imageSize |-> imageSize,
              rawLandmarks |-> rawLandmarks,
              normalizedLandmarks |-> normalizeLandmarks(rawLandmarks),
              valid |-> TRUE]

\* toPoseFrame(landmarks, timestampMs, imageSize, visibilityThreshold):
\* landmarks is NULL (undefined) or <<array>>; a landmark of the array is
\* [x, y, z, visibility] with the visibility NULL (not reported) or
\* <<hundredths>>.  Every slot starts
\* absent; an absent array or one of another length than the names gives the
\* invalid frame with every slot still absent; otherwise the landmarks at or
\* above the visibility threshold fill their slots.
toPoseFrame(landmarks, timestampMs, imageSize, visibilityThreshold) ==
    IF landmarks = NULL \/ Len(landmarks[1]) # Len(POSE_LANDMARK_NAMES)
    THEN [timestamp |-> timestampMs, imageSize |-> imageSize,
          rawLandmarks |-> <<>>, normalizedLandmarks |-> <<>>, valid |-> FALSE]
    ELSE LET arr == landmarks[1]
             seen == {i \in 1..Len(arr) :
                         ~(visibilityOr0(arr[i]) < visibilityThreshold)}
             rawLandmarks ==
                 [name \in {POSE_LANDMARK_NAMES[i] : i \in seen} |->
                     Landmark2D(arr[CHOOSE i \in seen : POSE_LANDMARK_NAMES[i] = name])]
         IN  [timestamp |-> timestampMs, imageSize |-> imageSize,
              rawLandmarks |-> rawLandmarks,
              normalizedLandmarks |-> normalizeLandmarks(rawLandmarks),
              valid |-> TRUE]

\* the pose model's output array for a posture: the posture's landmarks with
\* visibility 0.9, every other landmark of the 33 with visibility 0.3
Detected(lm) ==
    [i \in 1..Len(POSE_LANDMARK_NAMES) |->
        IF POSE_LANDMARK_NAMES[i] \in DOMAIN lm
        THEN [x |-> lm[POSE_LANDMARK_NAMES[i]].x, y |-> lm[POSE_LANDMARK_NAMES[i]].y,
              z |-> lm[POSE_LANDMARK_NAMES[i]].z, visibility |-> <<90>>]
        ELSE [x |-> 500, y |-> 300, z |-> 0, visibility |-> <<30>>]]

\* the array with the visibility of the named landmark replaced
WithVisibility(arr, name, v) ==
    [i \in 1..Len(arr) |->
        IF POSE_LANDMARK_NAMES[i] = name THEN [arr[i] EXCEPT !.visibility = v]
        ELSE arr[i]]

\* a detection with the nose exactly at the default threshold, the left
\* shoulder just below it and no visibility reported for the right wrist
Borderline ==
    WithVisibility(WithVisibility(WithVisibility(Detected(Stand),
        "nose", <<50>>), "left_shoulder", <<49>>), "right_wrist", NULL)

\* result.landmarks?.[0]: undefined without a detection, else an array; the
\* arrays here are a full detection, one with the hips not visible, two
\* with visibilities at, below and without the threshold (one of them with
\* no visibility reported for a hip), and arrays of 0, 32 and 34 landmarks
LandmarkArrays ==
    {NULL, <<Detected(Stand)>>, <<Detected(NoHips(Stand))>>, << <<>> >>,
     <<Borderline>>, <<WithVisibility(Borderline, "left_hip", NULL)>>,
     <<SubSeq(Detected(Stand), 1, 32)>>,
     <<Append(Detected(Stand), [x |-> 500, y |-> 300, z |-> 0, visibility |-> <<90>>])>>}

\* ---------------------------------------------------------------- PoseHistory
PoseHistory(maxlen) == [maxlen |-> maxlen, buffer |-> <<>>]

\* PoseHistory_append_dropNewest differs from PoseHistory_append in evicting
\* the frame just pushed
PoseHistory_append_dropNewest(h, pose) ==
    IF Len(h.buffer) + 1 > h.maxlen THEN h
    ELSE [h EXCEPT !.buffer = Append(h.buffer, pose)]

\* append: push, then shift while over the capacity
PoseHistory_append(h, pose) ==
    LET pushed == Append(h.buffer, pose)
    IN  [h EXCEPT !.buffer = IF Len(pushed) > h.maxlen THEN Tail(pushed)
                             ELSE pushed]

PoseHistory_latest(h) ==
    IF Len(h.buffer) # 0 THEN <<h.buffer[Len(h.buffer)]>> ELSE NULL

\* PoseHistory_timeWindow_strict differs from PoseHistory_timeWindow in
\* leaving out the frame exactly `seconds` older than the newest
PoseHistory_timeWindow_strict(h, seconds) ==
    IF Len(h.buffer) = 0 THEN <<>>
    ELSE LET endTime == h.buffer[Len(h.buffer)].timestamp
         IN  SelectSeq(h.buffer, LAMBDA pose : endTime - pose.timestamp < seconds)

\* timeWindow(seconds), with the window in milliseconds like the timestamps
PoseHistory_timeWindow(h, seconds) ==
    IF Len(h.buffer) = 0 THEN <<>>
    ELSE LET endTime == h.buffer[Len(h.buffer)].timestamp
         IN  SelectSeq(h.buffer, LAMBDA pose : endTime - pose.timestamp <= seconds)

\* poseOut: op        the last call on the PoseHistory
\*          landmarks the array that append()'s frame was made from
\*          appended  every frame appended so far, oldest first
\*          seconds   the argument of that timeWindow()
\*          result    what that timeWindow() returned
NoHistoryCall ==
    [op |-> "new", landmarks |-> NULL, appended |-> <<>>, seconds |-> 0,
     result |-> <<>>]

\* ---------------------------------------------------------------- BarDetector
\* An ImageData is [width, height, data]; data[y][x] is the pixel <<r, g, b>>
\* of row y and column x, both counted from 0.  Luma is kept in thousandths
\* (299 r + 587 g + 114 b), so that row scores are exact integers; a bar
\* position is in units U (100000 = 1.0, the bottom of the image).

luma(pixel) == 299 * pixel[1] + 587 * pixel[2] + 114 * pixel[3]

RECURSIVE SumTo(_, _)
\* f[0] + ... + f[n]
SumTo(f, n) == IF n < 0 THEN 0 ELSE f[n] + SumTo(f, n - 1)

\* rowScores: for each row of the upper 65% but the first, the sum over the
\* columns of the absolute luma difference to the row above; 0 for row 0
rowScores(imageData) ==
    LET roiHeight == (imageData.height * 65) \div 100
    IN  [y \in 0..(roiHeight - 1) |->
            IF y = 0 THEN 0
            ELSE SumTo([x \in 0..(imageData.width - 1) |->
                           Abs(luma(imageData.data[y][x])
                               - luma(imageData.data[y - 1][x]))],
                       imageData.width - 1)]

\* detectBarCandidate_anyEdge differs from detectBarCandidate in accepting
\* the strongest row however weak it is against the mean
detectBarCandidate_anyEdge(imageData) ==
    LET roiHeight == (imageData.height * 65) \div 100
    IN  IF roiHeight <= 2 \/ imageData.width <= 2 THEN NULL
        ELSE LET scores == rowScores(imageData)
                 maxVal == Max(0, CHOOSE v \in {scores[i] : i \in DOMAIN scores} :
                                     \A i \in DOMAIN scores : scores[i] <= v)
                 maxIdx == IF maxVal = 0 THEN -1
                           ELSE CHOOSE i \in DOMAIN scores :
                                   /\ scores[i] = maxVal
                                   /\ \A j \in DOMAIN scores : scores[j] = maxVal => i <= j
             IN  IF maxIdx < 0 THEN NULL
                 ELSE <<(maxIdx * 100000) \div imageData.height>>

\* detectBarCandidate: the first row of the largest score, as a fraction of
\* the image height, unless no row scores above 0 or the largest score is
\* below 1.6 times the mean score of the rows
detectBarCandidate(imageData) ==
    LET roiHeight == (imageData.height * 65) \div 100
    IN  IF roiHeight <= 2 \/ imageData.width <= 2 THEN NULL
        ELSE LET scores == rowScores(imageData)
                 maxVal == Max(0, CHOOSE v \in {scores[i] : i \in DOMAIN scores} :
                                     \A i \in DOMAIN scores : scores[i] <= v)
                 maxIdx == IF maxVal = 0 THEN -1
                           ELSE CHOOSE i \in DOMAIN scores :
                                   /\ scores[i] = maxVal
                                   /\ \A j \in DOMAIN scores : scores[j] = maxVal => i <= j
                 total == SumTo(scores, roiHeight - 1)
             IN  \* maxVal < mean * 1.6, with mean = total / max(roiHeight, 1)
                 IF maxIdx < 0 \/ maxVal * 10 * Max(roiHeight, 1) < total * 16 THEN NULL
                 ELSE <<(maxIdx * 100000) \div imageData.height>>

\* new BarDetector(maxAgeSeconds, smoothing): the age in ms, the smoothing in
\* hundredths
BarDetector(maxAgeMs, smoothing) ==
    [maxAgeMs |-> maxAgeMs, smoothing |-> smoothing, lastY |-> NULL,
     lastTime |-> NULL]

BarDetector_reset(b) == [b EXCEPT !.lastY = NULL, !.lastTime = NULL]

\* smooth: prev * alpha + curr * (1 - alpha), floored to a whole U
BarDetector_smooth(prev, curr, alpha) ==
    IF prev = NULL THEN curr
    ELSE (prev[1] * alpha + curr * (100 - alpha)) \div 100

\* BarDetector_update_stale differs from BarDetector_update in returning the
\* last position whatever its age
BarDetector_update_stale(b, imageData, t) ==
    LET candidate == detectBarCandidate(imageData)
    IN  IF candidate # NULL
        THEN LET y == BarDetector_smooth(b.lastY, candidate[1], b.smoothing)
             IN  [b |-> [b EXCEPT !.lastY = <<y>>, !.lastTime = <<t>>],
                  result |-> <<y>>]
        ELSE IF b.lastY # NULL /\ b.lastTime # NULL
             THEN [b |-> b, result |-> b.lastY]
        ELSE [b |-> b, result |-> NULL]

\* update(imageData), reading the clock t: the detector after the call and
\* what the call returns
BarDetector_update(b, imageData, t) ==
    LET candidate == detectBarCandidate(imageData)
    IN  IF candidate # NULL
        THEN LET y == BarDetector_smooth(b.lastY, candidate[1], b.smoothing)
             IN  [b |-> [b EXCEPT !.lastY = <<y>>, !.lastTime = <<t>>],
                  result |-> <<y>>]
        ELSE IF b.lastY # NULL /\ b.lastTime # NULL /\ t - b.lastTime[1] <= b.maxAgeMs
             THEN [b |-> b, result |-> b.lastY]
        ELSE [b |-> b, result |-> NULL]

\* the colours of the analysis frames
Black == <<0, 0, 0>>
White == <<255, 255, 255>>
Grey == <<128, 128, 128>>
Red == <<255, 0, 0>>

\* an ImageData whose row y has the colour shade[y] in every column but the
\* last, which has the colour last[y]
Image(width, height, shade, last) ==
    [width |-> width, height |-> height,
     data |-> [y \in 0..(height - 1) |->
                  [x \in 0..(width - 1) |-> IF x = width - 1 THEN last[y]
                                            ELSE shade[y]]]]

\* one colour above row r, another from row r on
Edge(height, r, above, below) == [y \in 0..(height - 1) |-> IF y < r THEN above ELSE below]

\* the analysis frames: an even wall; a bar edge at row 2 and one at row 4
\* of 10; a red bar edge at row 3 that stops short of the last column; an
\* edge at row 8, under the analysed 65%; stripes, an edge at every row; a
\* frame of 2 columns and one of 4 rows, too small to analyse
Images ==
    {Image(3, 10, Edge(10, 0, Grey, Grey), Edge(10, 0, Grey, Grey)),
     Image(3, 10, Edge(10, 2, Black, White), Edge(10, 2, Black, White)),
     Image(3, 10, Edge(10, 4, White, Black), Edge(10, 4, White, Black)),
     Image(3, 10, Edge(10, 3, Grey, Red), Edge(10, 0, Grey, Grey)),
     Image(3, 10, Edge(10, 8, Black, White), Edge(10, 8, Black, White)),
     Image(3, 10, [y \in 0..9 |-> IF y % 2 = 0 THEN Black ELSE White],
                  [y \in 0..9 |-> IF y % 2 = 0 THEN Black ELSE White]),
     Image(2, 10, Edge(10, 2, Black, White), Edge(10, 2, Black, White)),
     Image(3, 4, Edge(4, 1, Black, White), Edge(4, 1, Black, White))}

\* barOut: op          the last call on the detector
\*         image       the frame of that update()
\*         candidate   what detectBarCandidate found in it
\*         result      what update() returned
\*         acceptedY   what the last update() with a candidate returned, NULL
\*                     before the first one and after a reset()
\*         acceptedAt  the clock reading of that update()
\*         expired     an update() without a candidate has returned NULL since
\*                     acceptedAt
\*         accepted    how many candidates have been accepted so far
NoBarCall ==
    [op |-> "new", image |-> NULL, candidate |-> NULL, result |-> NULL,
     acceptedY |-> NULL, acceptedAt |-> NULL, expired |-> FALSE, accepted |-> 0]

\* -------------------------------------------------------------- Home session
\* session: started       the frame loop is running (startCamera has called
\*                        startLoop and stopCamera has not cancelled it)
\*          loopId        the selectedId the running loop's closure captured
\*          loopCounter   the counter that closure captured: NULL while it is
\*                        the very object held in the counter state, else
\*                        <<fields>> of the object only the closure still holds
\*          lastRepCount  lastRepCountRef.current
\*          exerciseTotals  the exerciseTotals state: the keys present are the
\*                        domain
\*          stats         the stats state (the displayed reps, phase, warnings)
\*          op            the last handler of the component that ran
\*          fedCurrent    the last frame went to the counter in the counter
\*                        state, created for the entry in the selectedId state
\*          counted       the update() of the last frame increased repCount
\*          countedId     the entry of the counter that update() belonged to
\*          calibrated    the last frame's calibrator.update() returned a
\*                        result, which went to setCalibration()
\*          pending       the startCamera() calls suspended at an await
\*          scheduled     the requestAnimationFrame handles whose callback has
\*                        neither run nor been cancelled
\*          frameRef      frameRef.current: NULL or <<handle>>
\*          nextHandle    the handle the next requestAnimationFrame returns
NoStats == [reps |-> 0, phase |-> "-", warnings |-> <<>>, isRepValid |-> TRUE]

NoSession ==
    [started |-> FALSE, loopId |-> EntryIds[1], loopCounter |-> NULL,
     lastRepCount |-> 0, exerciseTotals |-> <<>>, stats |-> NoStats,
     op |-> "new", fedCurrent |-> TRUE, counted |-> FALSE,
     countedId |-> EntryIds[1], calibrated |-> FALSE,
     pending |-> 0, scheduled |-> {}, frameRef |-> NULL, nextHandle |-> 1]

\* the library objects before any call: a PoseHistory of capacity 2, the
\* session's BarDetector with its defaults (0.6 s, 0.7), the Home component
\* before the camera starts, no second counter
OthersInit ==
    /\ poseHistory = PoseHistory(2)
    /\ poseOut = NoHistoryCall
    /\ barDetector = BarDetector(600, 70)
    /\ barOut = NoBarCall
    /\ session = NoSession
    /\ twin = NULL

\* ----------------------------------------------------------------- actions
NoCall == [op |-> "new", state |-> NULL]

\* calOut: op        the last call on the calibrator
\*         result    what update() returned: NULL or <<CalibrationResult>>
\*         valid     the frame of that update() was a valid pose
\*         complete  the frame of that update() had every required joint
\*         produced  an update() has returned a result since construction or
\*                   the last reset()
NoCalibratorCall ==
    [op |-> "new", result |-> NULL, valid |-> FALSE, complete |-> FALSE,
     produced |-> FALSE]

Init ==
    /\ selectedId \in Entries
    /\ counter = createCounter(selectedId)
    /\ out = NoCall
    /\ now = 0
    /\ hist = NoHistory
    /\ calibrator = PassiveCalibrator(3000)
    /\ calOut = NoCalibratorCall
    /\ OthersInit

\* one frame is delivered: counter.update(pose, barY)
Update ==
    /\ counter.repCount < MaxReps
    /\ \E d1 \in FirstDts(counter), d2 \in SecondDts(counter) :
       \E frame \in Frames[counter.cls], barY \in BarYs(selectedId) :
       \E pose \in {PoseFrame(frame, now + d1)} :
       \E r \in {update(counter, pose, barY, now + d1, now + d1 + d2)} :
       \E clock \in {IF r.clock = NULL THEN now ELSE r.clock[1]} :
       \E k \in {Kind(r.c, pose, barY, now + d1)} :
          /\ clock <= MaxNow
          /\ counter.cls = "JumpingJack" => Len(r.c.hipWidths) <= MaxSamples
          /\ counter.cls = "PushUp" => r.c.badHipFrames <= MaxBadHipFrames
          /\ counter' = r.c
          /\ out' = [op |-> "update", state |-> r.out]
          /\ now' = clock
          /\ hist' = Observe(hist, counter, r.c, k)
    /\ UNCHANGED <<selectedId, calibrator, calOut, others>>

\* counter.reset()
Reset ==
    /\ counter' = reset(counter)
    /\ out' = [op |-> "reset", state |-> NULL]
    /\ hist' = NoHistory
    /\ UNCHANGED <<selectedId, now, calibrator, calOut, others>>

\* counter.setCalibration(calibration), on the push-up counter
SetCalibration ==
    /\ counter.cls = "PushUp"
    /\ \E calibration \in Calibrations :
          counter' = PushUpCounter_setCalibration(counter, calibration)
    /\ out' = [op |-> "setCalibration", state |-> NULL]
    /\ hist' = [NoHistory EXCEPT !.last = hist.last,
                                  !.lastMeasured = hist.lastMeasured,
                                  !.sawOpen = hist.sawOpen,
                                  !.badStreak = hist.badStreak,
                                  !.badSeen = hist.badSeen]
    /\ UNCHANGED <<selectedId, now, calibrator, calOut, others>>

Next == Update \/ Reset \/ SetCalibration

Spec == Init /\ [][Next]_vars

\* ----------------------------------------------- the calibrator on its own
\* the calibrator of a push-up session, before any frame
CalInit ==
    /\ selectedId = "pushup"
    /\ counter = createCounter(selectedId)
    /\ out = NoCall
    /\ now = 0
    /\ hist = NoHistory
    /\ calibrator = PassiveCalibrator(3000)
    /\ calOut = NoCalibratorCall
    /\ OthersInit

\* what the pose model delivers while the calibrator runs: the top and a
\* lower push-up posture, a frame without hips, one without the left side,
\* and the invalid frame
CalibratorFrames ==
    {[valid |-> TRUE, rawLandmarks |-> lm] :
        lm \in {PlankTop(520), PlankMid(520), NoHips(PlankMid(520)),
                NoLeft(PlankTop(520))}}
        \cup {[valid |-> FALSE, rawLandmarks |-> Absent]}

\* how far the clock has moved when the calibrator reads it again (ms): not
\* at all, a frame or so, the whole window
CalDts == {0, 1000, 3000}

\* the call reads the clock a second time only when it starts the window
CalSecondDts(k) == IF k.startTime = NULL THEN Dts ELSE {0}

\* one frame is delivered: calibrator.update(pose)
CalUpdate ==
    /\ \E d1 \in CalDts, d2 \in CalSecondDts(calibrator), frame \in CalibratorFrames :
       \E pose \in {PoseFrame(frame, now + d1)} :
       \E r \in {PassiveCalibrator_update(calibrator, pose, now + d1, now + d1 + d2)} :
       \E clock \in {IF r.clock = NULL THEN now ELSE r.clock[1]} :
          /\ clock <= MaxNow
          /\ Len(r.k.elbowAngles) <= MaxSamples
          /\ calibrator' = r.k
          /\ calOut' = [op |-> "update", result |-> r.result, valid |-> pose.valid,
                        complete |-> /\ pose.valid
                                     /\ Present(pose.rawLandmarks,
                                                PassiveCalibrator_required),
                        produced |-> calOut.produced \/ r.result # NULL]
          /\ now' = clock
    /\ UNCHANGED <<selectedId, counter, out, hist, others>>

\* calibrator.reset()
CalReset ==
    /\ calibrator' = PassiveCalibrator_reset(calibrator)
    /\ calOut' = [NoCalibratorCall EXCEPT !.op = "reset"]
    /\ UNCHANGED <<selectedId, counter, out, now, hist, others>>

CalNext == CalUpdate \/ CalReset

CalSpec == CalInit /\ [][CalNext]_vars

\* ------------------------------------- the library objects on their own
\* the Home component as mounted: the first entry selected, its counter
\* created, no frame processed yet
HomeInit ==
    /\ selectedId = EntryIds[1]
    /\ counter = createCounter(selectedId)
    /\ out = NoCall
    /\ now = 0
    /\ hist = NoHistory
    /\ calibrator = PassiveCalibrator(3000)
    /\ calOut = NoCalibratorCall
    /\ OthersInit

\* new PoseHistory(maxlen)
HistoryNew ==
    /\ \E maxlen \in 1..MaxLen : poseHistory' = PoseHistory(maxlen)
    /\ poseOut' = NoHistoryCall
    /\ UNCHANGED <<selectedId, counter, out, now, hist, calibrator, calOut,
                   barDetector, barOut, session, twin>>

\* history.append(toPoseFrame(landmarks, performance.now(), imageSize))
HistoryAppend ==
    /\ Len(poseOut.appended) < MaxAppends
    /\ \E landmarks \in LandmarkArrays, d \in Dts :
       \E pose \in {toPoseFrame(landmarks, now + d, <<1280, 720>>, 50)} :
          /\ now + d <= MaxNow
          /\ poseHistory' = PoseHistory_append(poseHistory, pose)
          /\ poseOut' = [op |-> "append", landmarks |-> landmarks,
                         appended |-> Append(poseOut.appended, pose),
                         seconds |-> 0, result |-> <<>>]
          /\ now' = now + d
    /\ UNCHANGED <<selectedId, counter, out, hist, calibrator, calOut,
                   barDetector, barOut, session, twin>>

\* the windows asked for (ms): the newest instant only, one second
Windows == {0, 1000}

\* history.timeWindow(seconds)
HistoryTimeWindow ==
    /\ \E seconds \in Windows :
          poseOut' = [poseOut EXCEPT
                         !.op = "timeWindow", !.seconds = seconds,
                         !.result = PoseHistory_timeWindow(poseHistory, seconds)]
    /\ UNCHANGED <<selectedId, counter, out, now, hist, calibrator, calOut,
                   poseHistory, barDetector, barOut, session, twin>>

HistoryNext == HistoryNew \/ HistoryAppend \/ HistoryTimeWindow

HistorySpec == HomeInit /\ [][HistoryNext]_vars

\* how far the clock moves between two analysis frames (ms)
BarDts == {300, 400}

IsBarCandidate(candidate) == IF candidate # NULL THEN 1 ELSE 0

\* barDetector.update(imageData)
BarUpdate ==
    /\ \E image \in Images, d \in BarDts :
       \E candidate \in {detectBarCandidate(image)} :
       \E r \in {BarDetector_update(barDetector, image, now + d)} :
          /\ now + d <= MaxBarNow
          /\ barOut.accepted + IsBarCandidate(candidate) <= MaxDetections
          /\ barDetector' = r.b
          /\ barOut' = [op |-> "update", image |-> <<image>>,
                        candidate |-> candidate, result |-> r.result,
                        acceptedY |-> IF candidate # NULL THEN r.result
                                      ELSE barOut.acceptedY,
                        acceptedAt |-> IF candidate # NULL THEN <<now + d>>
                                       ELSE barOut.acceptedAt,
                        expired |-> /\ candidate = NULL
                                    /\ \/ barOut.expired
                                       \/ r.result = NULL /\ barOut.acceptedY # NULL,
                        accepted |-> barOut.accepted + IsBarCandidate(candidate)]
          /\ now' = now + d
    /\ UNCHANGED <<selectedId, counter, out, hist, calibrator, calOut,
                   poseHistory, poseOut, session, twin>>

\* barDetector.reset()
BarReset ==
    /\ barDetector' = BarDetector_reset(barDetector)
    /\ barOut' = [NoBarCall EXCEPT !.op = "reset", !.accepted = barOut.accepted]
    /\ UNCHANGED <<selectedId, counter, out, now, hist, calibrator, calOut,
                   poseHistory, poseOut, session, twin>>

BarNext == BarUpdate \/ BarReset

BarSpec == HomeInit /\ [][BarNext]_vars

\* -------------------------------------------------- the Home component
\* The handlers of Home and the frame loop.  startLoop's loop closes over the
\* selectedId and counter of the render in which startCamera was called and
\* re-schedules itself, so a running loop keeps those two values; the refs
\* (lastRepCountRef, calibratorRef, barDetectorRef) are shared by every
\* closure.  Every clock reading of one frame is the same instant.  The call
\* records out, calOut and barOut belong to the single-object specifications
\* and are not kept here.

\* the entries selected in a session: the first of the registry, a counter
\* that counts in two frames, a bar entry, the push-up
SessionEntries == {"jumping_jack", "arm_raises", "pullup", "pushup"}

\* result.landmarks?.[0] while a counter of the class is fed: no detection,
\* or two postures of the exercise
SessionLandmarks(cls) ==
    {NULL} \cup
    {<<Detected(lm)>> :
        lm \in CASE cls = "JumpingJack" -> {Stand, JackOpen}
                 [] cls = "ArmRaise" -> {Stand, ArmsUp}
                 [] cls = "PullUp" -> {Hang, ChinOver}
                 [] OTHER -> {PlankTop(520)}}

\* the analysis frames of a session: a bar edge at row 2 of 10, an even wall
SessionImages ==
    {Image(3, 10, Edge(10, 2, Black, White), Edge(10, 2, Black, White)),
     Image(3, 10, Edge(10, 0, Grey, Grey), Edge(10, 0, Grey, Grey))}

\* how far the clock moves from one processed frame to the next (ms)
SessionDts == {1000}

\* { ...prev, [entryId]: (prev[entryId] ?? 0) + 1 }
Credit(prev, entryId) ==
    [id \in DOMAIN prev \cup {entryId} |->
        IF id = entryId THEN (IF id \in DOMAIN prev THEN prev[id] ELSE 0) + 1
        ELSE prev[id]]

\* the counter the running loop feeds
LoopCounter ==
    IF session.loopCounter = NULL THEN counter ELSE session.loopCounter[1]

\* startCamera: nothing when the landmarker is ready, else startLoop()
StartCamera ==
    /\ ~session.started
    /\ session' = [session EXCEPT !.started = TRUE, !.loopId = selectedId,
                                  !.loopCounter = NULL, !.op = "startCamera"]
    /\ UNCHANGED <<selectedId, counter, out, now, hist, calibrator, calOut,
                   poseHistory, poseOut, barDetector, barOut, twin>>

\* stopCamera: the frame is cancelled and the landmarker marked not ready
StopCamera ==
    /\ session.started
    /\ session' = [session EXCEPT !.started = FALSE, !.loopId = EntryIds[1],
                                  !.loopCounter = NULL, !.op = "stopCamera"]
    /\ UNCHANGED <<selectedId, counter, out, now, hist, calibrator, calOut,
                   poseHistory, poseOut, barDetector, barOut, twin>>

\* setSelectedId(item.id) with another id, and the effect it triggers: a new
\* counter in the counter state, stats and lastRepCountRef cleared, the
\* calibrator and the bar detector reset.  A running loop keeps the object
\* that was in the counter state when it started.
SelectExercise ==
    /\ \E id \in SessionEntries \ {selectedId} :
          /\ selectedId' = id
          /\ counter' = createCounter(id)
    /\ session' = [session EXCEPT
                      !.stats = NoStats, !.lastRepCount = 0, !.op = "select",
                      !.loopCounter = IF session.started /\ session.loopCounter = NULL
                                      THEN <<counter>> ELSE session.loopCounter]
    /\ calibrator' = PassiveCalibrator_reset(calibrator)
    /\ barDetector' = BarDetector_reset(barDetector)
    /\ UNCHANGED <<out, now, hist, calOut, poseHistory, poseOut, barOut, twin>>

\* resetSession: totals and stats cleared, lastRepCountRef cleared, reset()
\* on the counter in the counter state
ResetSession ==
    /\ counter' = reset(counter)
    /\ session' = [session EXCEPT !.exerciseTotals = <<>>, !.stats = NoStats,
                                  !.lastRepCount = 0, !.op = "resetSession"]
    /\ UNCHANGED <<selectedId, now, hist, out, calibrator, calOut, poseHistory,
                   poseOut, barDetector, barOut, twin>>

\* one pass of the loop on a ready video frame; handles is what the pass
\* leaves of the requestAnimationFrame handles, dts how far the clock may
\* have moved since the last pass, detections what the pose model may
\* deliver, maxNow the last instant looked at
LoopPassOn(handles, dts, detections, maxNow) ==
    /\ LoopCounter.repCount < MaxReps
    /\ \E d \in dts, landmarks \in detections, image \in SessionImages :
       \E t \in {now + d} :
       \E pose \in {toPoseFrame(landmarks, t, <<1280, 720>>, 50)} :
       \E b \in {IF usesBar(session.loopId)
                 THEN BarDetector_update(barDetector, image, t)
                 ELSE [b |-> barDetector, result |-> NULL]} :
       \E k \in {IF LoopCounter.cls = "PushUp"
                 THEN PassiveCalibrator_update(calibrator, pose, t, t)
                 ELSE [k |-> calibrator, result |-> NULL, clock |-> NULL]} :
       \E c1 \in {IF k.result # NULL
                  THEN PushUpCounter_setCalibration(LoopCounter, k.result[1])
                  ELSE LoopCounter} :
       \E r \in {update(c1, pose, b.result, t, t)} :
       \E totals \in {IF r.out.repCount > session.lastRepCount
                      THEN Credit(session.exerciseTotals, session.loopId)
                      ELSE session.exerciseTotals} :
          /\ t <= maxNow
          /\ ~usesBar(session.loopId) => image = CHOOSE i \in SessionImages : TRUE
          /\ r.c.cls = "JumpingJack" => Len(r.c.hipWidths) <= MaxSamples
          /\ r.c.cls = "PushUp" => r.c.badHipFrames <= MaxBadHipFrames
          /\ Len(k.k.elbowAngles) <= MaxSamples
          /\ \A id \in DOMAIN totals : totals[id] <= MaxTotal
          /\ barDetector' = b.b
          /\ calibrator' = k.k
          /\ counter' = IF session.loopCounter = NULL THEN r.c ELSE counter
          /\ session' =
                [session EXCEPT
                    !.loopCounter = IF session.loopCounter = NULL THEN NULL
                                    ELSE <<r.c>>,
                    !.stats = [reps |-> r.out.repCount, phase |-> r.out.phase,
                               warnings |-> r.out.warnings,
                               isRepValid |-> r.out.isRepValid],
                    !.exerciseTotals = totals,
                    !.lastRepCount = r.out.repCount,
                    !.op = "frame",
                    !.fedCurrent = session.loopCounter = NULL,
                    !.counted = r.c.repCount > LoopCounter.repCount,
                    !.countedId = session.loopId,
                    !.calibrated = k.result # NULL,
                    !.scheduled = handles.scheduled,
                    !.frameRef = handles.frameRef,
                    !.nextHandle = handles.nextHandle]
          /\ now' = t
    /\ UNCHANGED <<selectedId, out, hist, calOut, poseHistory, poseOut, barOut, twin>>

\* a pass of a session
LoopPass(handles) ==
    LoopPassOn(handles, SessionDts, SessionLandmarks(LoopCounter.cls), MaxNow)

\* the handles as they are
Handles ==
    [scheduled |-> session.scheduled, frameRef |-> session.frameRef,
     nextHandle |-> session.nextHandle]

\* the pass of the one running loop
ProcessFrame ==
    /\ session.started
    /\ LoopPass(Handles)

SessionNext ==
    StartCamera \/ StopCamera \/ SelectExercise \/ ResetSession \/ ProcessFrame

SessionSpec == HomeInit /\ [][SessionNext]_vars

\* ------------------------------------- the camera handlers and the loop chain
\* startCamera is suspended at its awaits (getUserMedia, play,
\* loadPoseLandmarker) and sets landmarkerReadyRef only after them, so clicks
\* and the loop run in between.  The loop's own await of loadPoseLandmarker
\* is on the cached landmarker, so one callback is one step.  session.started
\* is landmarkerReadyRef.current.  The exercise is not switched here, so every
\* loop closure holds the counter of the counter state.

\* the handles after the callback h ran and called requestAnimationFrame
Rescheduled(h) ==
    [scheduled |-> (session.scheduled \ {h}) \cup {session.nextHandle},
     frameRef |-> <<session.nextHandle>>,
     nextHandle |-> session.nextHandle + 1]

\* Start Workout or Start Camera: startCamera up to its first await
ClickStartCamera ==
    /\ ~session.started
    /\ session.pending < MaxPending
    /\ session' = [session EXCEPT !.pending = @ + 1, !.op = "startCamera"]
    /\ UNCHANGED <<selectedId, counter, out, now, hist, calibrator, calOut,
                   poseHistory, poseOut, barDetector, barOut, twin>>

\* the awaits of one startCamera call are over: the landmarker is marked
\* ready and startLoop() schedules a new loop
CameraReady ==
    /\ session.pending > 0
    /\ session.nextHandle <= MaxHandle
    /\ session' = [session EXCEPT
                      !.pending = @ - 1, !.started = TRUE,
                      !.loopId = selectedId, !.loopCounter = NULL,
                      !.scheduled = @ \cup {session.nextHandle},
                      !.frameRef = <<session.nextHandle>>,
                      !.nextHandle = @ + 1, !.op = "cameraReady"]
    /\ UNCHANGED <<selectedId, counter, out, now, hist, calibrator, calOut,
                   poseHistory, poseOut, barDetector, barOut, twin>>

\* an await of one startCamera call throws: "Camera access denied"
CameraDenied ==
    /\ session.pending > 0
    /\ session' = [session EXCEPT !.pending = @ - 1, !.op = "cameraDenied"]
    /\ UNCHANGED <<selectedId, counter, out, now, hist, calibrator, calOut,
                   poseHistory, poseOut, barDetector, barOut, twin>>

\* Stop Camera: the landmarker marked not ready, cancelAnimationFrame on the
\* handle in frameRef
ClickStopCamera ==
    /\ session' = [session EXCEPT
                      !.started = FALSE,
                      !.scheduled = IF session.frameRef = NULL THEN @
                                    ELSE @ \ {session.frameRef[1]},
                      !.op = "stopCamera"]
    /\ UNCHANGED <<selectedId, counter, out, now, hist, calibrator, calOut,
                   poseHistory, poseOut, barDetector, barOut, twin>>

\* a scheduled callback runs while the landmarker is not ready: it only
\* schedules itself again
LoopIdle ==
    /\ ~session.started
    /\ session.nextHandle <= MaxHandle
    /\ \E h \in session.scheduled :
       \E handles \in {Rescheduled(h)} :
          session' = [session EXCEPT
                         !.scheduled = handles.scheduled,
                         !.frameRef = handles.frameRef,
                         !.nextHandle = handles.nextHandle, !.op = "idle"]
    /\ UNCHANGED <<selectedId, counter, out, now, hist, calibrator, calOut,
                   poseHistory, poseOut, barDetector, barOut, twin>>

\* a scheduled callback runs on a ready frame and schedules itself again
LoopFrame ==
    /\ session.started
    /\ session.nextHandle <= MaxHandle
    /\ \E h \in session.scheduled : LoopPass(Rescheduled(h))

LoopNext ==
    \/ ClickStartCamera
    \/ CameraReady
    \/ CameraDenied
    \/ ClickStopCamera
    \/ LoopIdle
    \/ LoopFrame

LoopSpec == HomeInit /\ [][LoopNext]_vars

\* --------------------------------------- frames whose joints coincide
\* every landmark detected at the same point
Collapsed == [k \in Names |-> LM(500, 500)]

\* one entry of each class that captures a reference length, and the push-up
FloorEntries ==
    {"arm_raises", "side_bends", "seal_jack", "high_knees", "squat",
     "forward_lunge", "situp", "pushup"}

\* the frames of the class, and the collapsed one
FloorFrames(cls) == Frames[cls] \cup {[valid |-> TRUE, rawLandmarks |-> Collapsed]}

\* a frame, or the calibration window, between two frames of a push-up
FloorDts == {1000, 3000}

FloorInit ==
    /\ selectedId \in FloorEntries
    /\ counter = createCounter(selectedId)
    /\ out = NoCall
    /\ now = 0
    /\ hist = NoHistory
    /\ calibrator = PassiveCalibrator(3000)
    /\ calOut = NoCalibratorCall
    /\ OthersInit

\* one frame goes the way of the loop: for a push-up counter through the
\* calibrator, whose result is handed to setCalibration, then to update()
FloorUpdate ==
    /\ counter.repCount < MaxReps
    /\ \E d \in IF counter.cls = "PushUp" THEN FloorDts ELSE {0},
          frame \in FloorFrames(counter.cls) :
       \E t \in {now + d} :
       \E pose \in {PoseFrame(frame, t)} :
       \E k \in {IF counter.cls = "PushUp"
                 THEN PassiveCalibrator_update(calibrator, pose, t, t)
                 ELSE [k |-> calibrator, result |-> NULL, clock |-> NULL]} :
       \E c1 \in {IF k.result # NULL
                  THEN PushUpCounter_setCalibration(counter, k.result[1])
                  ELSE counter} :
       \E r \in {update(c1, pose, NULL, t, t)} :
          /\ t <= MaxNow
          /\ Len(k.k.elbowAngles) <= MaxSamples
          /\ counter.cls = "PushUp" => r.c.badHipFrames <= MaxBadHipFrames
          /\ counter' = r.c
          /\ calibrator' = k.k
          /\ calOut' = [op |-> "update", result |-> k.result, valid |-> pose.valid,
                        complete |-> /\ pose.valid
                                     /\ Present(pose.rawLandmarks,
                                                PassiveCalibrator_required),
                        produced |-> calOut.produced \/ k.result # NULL]
          /\ out' = [op |-> "update", state |-> r.out]
          /\ now' = t
    /\ UNCHANGED <<selectedId, hist, others>>

FloorSpec == FloorInit /\ [][FloorUpdate]_vars

\* ------------------------------------------------- a push-up session
\* the Home component with the push-up selected, before the camera starts
PushUpInit ==
    /\ selectedId = "pushup"
    /\ counter = createCounter(selectedId)
    /\ out = NoCall
    /\ now = 0
    /\ hist = NoHistory
    /\ calibrator = PassiveCalibrator(3000)
    /\ calOut = NoCalibratorCall
    /\ OthersInit

\* what the pose model delivers of someone doing push-ups with every joint
\* in view, and before that of someone half in view
PushUpLandmarks ==
    {<<Detected(lm)>> :
        lm \in {NoLeft(PlankTop(520)), PlankTop(520), PlankMid(520), PlankLow(520)}}

\* a frame, or the calibration window, between two passes
PushUpDts == {1000, 3000}

\* one pass of the loop of a push-up session
PushUpFrame ==
    /\ session.started
    /\ LoopPassOn(Handles, PushUpDts, PushUpLandmarks, MaxPushUpNow)

PushUpNext == StartCamera \/ PushUpFrame

PushUpSpec == PushUpInit /\ [][PushUpNext]_vars

\* ------------------------------------------- the three objects and reset()
\* A counter, the calibrator and the bar detector share no state, so a run
\* works on one of them: the counter of any entry, the calibrator when the
\* push-up is selected, the bar detector when a bar entry is selected.
CounterUntouched == out.op = "new"
CalibratorUntouched == calOut.op = "new"
BarDetectorUntouched == barOut.op = "new"

ResetNext ==
    \/ CalibratorUntouched /\ BarDetectorUntouched /\ Next
    \/ selectedId = "pushup" /\ CounterUntouched /\ BarDetectorUntouched /\ CalNext
    \/ usesBar(selectedId) /\ CounterUntouched /\ CalibratorUntouched /\ BarNext

ResetSpec == Init /\ [][ResetNext]_vars

\* ---------------------------------------------- two runs, one of them scaled
\* the entries run twice: one of each class whose update() reads no clock,
\* and both bar entries
ScaleEntries ==
    {"squat", "forward_lunge", "situp", "pullup", "chinup", "seal_jack",
     "high_knees", "arm_raises", "side_bends"}

\* every coordinate of the frame scaled by 2 about the point (0.5, 0.2, 0)
Scaled(frame) ==
    [valid |-> frame.valid,
     rawLandmarks |->
        [k \in DOMAIN frame.rawLandmarks |->
            [x |-> 500 + 2 * (frame.rawLandmarks[k].x - 500),
             y |-> 200 + 2 * (frame.rawLandmarks[k].y - 200),
             z |-> 2 * frame.rawLandmarks[k].z]]]

\* the bar position under the same scaling (in U)
ScaledBar(barY) ==
    IF barY = NULL THEN NULL ELSE <<20000 + 2 * (barY[1] - 20000)>>

\* two counters of one entry, before any frame
ScaleInit ==
    /\ selectedId \in ScaleEntries
    /\ counter = createCounter(selectedId)
    /\ twin = <<createCounter(selectedId)>>
    /\ out = NoCall
    /\ now = 0
    /\ hist = NoHistory
    /\ calibrator = PassiveCalibrator(3000)
    /\ calOut = NoCalibratorCall
    /\ poseHistory = PoseHistory(2)
    /\ poseOut = NoHistoryCall
    /\ barDetector = BarDetector(600, 70)
    /\ barOut = NoBarCall
    /\ session = NoSession

\* one frame is delivered to the counter, and the same frame scaled, with
\* the bar position scaled, to the second counter
ScaledUpdate ==
    /\ counter.repCount < MaxReps
    /\ twin[1].repCount < MaxReps
    /\ \E frame \in Frames[counter.cls], barY \in BarYs(selectedId) :
       \E r \in {update(counter, PoseFrame(frame, now), barY, now, now)} :
       \E r2 \in {update(twin[1], PoseFrame(Scaled(frame), now), ScaledBar(barY),
                         now, now)} :
          /\ counter' = r.c
          /\ twin' = <<r2.c>>
          /\ out' = [op |-> "update", state |-> r.out]
    /\ UNCHANGED <<selectedId, now, hist, calibrator, calOut, poseHistory, poseOut,
                   barDetector, barOut, session>>

ScaleSpec == ScaleInit /\ [][ScaledUpdate]_vars

\* ------------------------------------------------------------------ claims
\* the step is a call of update(), of reset(), of setCalibration()
IsUpdate == out'.op = "update"
IsReset == out'.op = "reset"
IsSetCalibration == out'.op = "setCalibration"

\* C1: with no reset() between them, the repCount returned by successive
\* update() calls is a natural number that never decreases: an update returns
\* the counter's repCount, which is at least what it was before the call;
\* setCalibration() leaves repCount alone; only reset() lowers repCount, and
\* it sets it to 0.
RepCountNonDecreasing ==
    [][ /\ IsUpdate =>
            /\ out'.state.repCount \in Nat
            /\ out'.state.repCount = counter'.repCount
            /\ counter'.repCount >= counter.repCount
        /\ IsSetCalibration => counter'.repCount = counter.repCount
        /\ IsReset => counter'.repCount = 0
        /\ counter'.repCount < counter.repCount => IsReset ]_vars

\* an update has returned the second rep of an entry
RepCountNonDecreasing_witness ==
    out.op = "update" /\ out.state.repCount = 2 /\ selectedId = "pushup"

\* the frames lms delivered one after the other, 1000 ms apart from time t
\* on, to the counter of result r; the result of the last update
RECURSIVE Feed(_, _, _)
Feed(r, lms, t) ==
    IF lms = <<>> THEN r
    ELSE Feed(update(r.c, PoseFrame([valid |-> TRUE, rawLandmarks |-> Head(lms)], t),
                     NULL, t, t),
              Tail(lms), t + 1000)

\* elbows 160 -> 90 -> 160 degrees, the shoulder drop 0 -> 0.3 -> 0, with
\* and without the frames in between (120 degrees, drop 0.1); hips in line
PushUpScenarios ==
    {<<PlankTop(520), PlankLow90(520), PlankTop(520)>>,
     <<PlankTop(520), PlankMid(520), PlankLow90(520), PlankMid(520), PlankTop(520)>>}

\* C2: a push-up counter calibrated once with topElbowAngle = 160 and fed
\* frames whose elbow angle goes 160 -> 90 -> 160 while the shoulder drop
\* rises past 0.25 and falls back below 0.1, the hips never out of
\* tolerance, ends with repCount = 1 and isRepValid = true.
PushUpScenarioCounts ==
    (\E calibration \in Calibrations :
        /\ calibration.topElbowAngle = 160
        /\ counter = PushUpCounter_setCalibration(PushUpCounter, calibration))
    => \A lms \in PushUpScenarios :
          LET r == Feed(Result(counter, NULL, NULL), lms, now)
          IN  r.out.repCount = 1 /\ r.out.isRepValid

\* the invalid frame at time t
InvalidPose(t) == PoseFrame([valid |-> FALSE, rawLandmarks |-> Absent], t)

\* C3: in every reachable state, update() with pose.valid = false returns the
\* current repCount and phase with the one warning "No pose detected",
\* changes no field of the counter and reads no clock (so that later updates
\* go as if the frame had not been delivered), whatever the bar position.
InvalidPoseIgnored ==
    \A barY \in BarYs(selectedId), d \in Dts :
        LET r == update(counter, InvalidPose(now + d), barY, now + d, now + d)
        IN  /\ r.c = counter
            /\ r.clock = NULL
            /\ r.out.repCount = counter.repCount
            /\ r.out.phase = counter.phase
            /\ r.out.warnings = <<"No pose detected">>

\* an invalid frame has reached a push-up counter at the bottom of a rep,
\* with bad hip frames counted and a shoulder sample kept
InvalidPoseIgnored_witness ==
    /\ out.op = "update"
    /\ out.state.warnings = <<"No pose detected">>
    /\ counter.cls = "PushUp"
    /\ counter.phase = "BOTTOM"
    /\ counter.badHipFrames > 0
    /\ counter.lastShoulderY # NULL

\* the warning of each class for absent joints
RegionWarning(cls) ==
    CASE cls = "JumpingJack" -> "Body not fully visible"
      [] cls = "ArmRaise" -> "Arms not visible"
      [] cls \in {"LegSpread", "KneeRaise", "Squat", "Lunge"} -> "Legs not visible"
      [] cls \in {"TorsoBend", "SitUp"} -> "Torso not visible"
      [] cls = "PullUp" -> "Upper body not visible"
      [] cls = "Hold" -> "Body not visible"
      [] cls = "PushUp" -> "Arms/shoulders not visible"

\* the valid frames in which counter c misses a required joint (or every
\* candidate side or group)
IncompleteFrames(c) ==
    {f \in Frames[c.cls] : f.valid /\ ~JointsVisible(c, f.rawLandmarks)}

\* the fields C4 lists are the same in c1 and c2: every field, but for the
\* bar height the pull-up counter is handed with each call
SameCounterState(c1, c2) ==
    IF c1.cls = "PullUp"
    THEN [c1 EXCEPT !.barY = NULL] = [c2 EXCEPT !.barY = NULL]
    ELSE c1 = c2

\* C4 as stated: update() with a valid frame in which a required joint is
\* absent returns a warning naming the missing region and leaves repCount,
\* phase, baselines, debounce counters, bad-hip-frame counter and velocity
\* samples as they were.
MissingJointsNamed ==
    \A f \in IncompleteFrames(counter), barY \in BarYs(selectedId), d \in Dts :
        LET r == update(counter, PoseFrame(f, now + d), barY, now + d, now + d)
        IN  /\ SameCounterState(r.c, counter)
            /\ r.out.warnings = <<RegionWarning(counter.cls)>>

\* C4, amended: such an update leaves those fields as they were, reads no
\* clock and returns the current repCount; it returns the current phase and
\* the warning naming the missing region, except that a push-up counter
\* without calibration returns phase CALIBRATING with "Calibrating..." and
\* a pull-up counter handed no bar returns phase WAITING_BAR with "Bar not
\* found": these two checks come before the joint check.
MissingJointsIgnored ==
    \A f \in IncompleteFrames(counter), barY \in BarYs(selectedId), d \in Dts :
        LET r == update(counter, PoseFrame(f, now + d), barY, now + d, now + d)
        IN  /\ SameCounterState(r.c, counter)
            /\ r.clock = NULL
            /\ r.out.repCount = counter.repCount
            /\ IF counter.cls = "PushUp" /\ counter.thresholds = NULL
               THEN r.out.phase = "CALIBRATING"
                    /\ r.out.warnings = <<"Calibrating...">>
               ELSE IF counter.cls = "PullUp" /\ barY = NULL
               THEN r.out.phase = "WAITING_BAR"
                    /\ r.out.warnings = <<"Bar not found">>
               ELSE r.out.phase = counter.phase
                    /\ r.out.warnings = <<RegionWarning(counter.cls)>>

\* a frame without legs has reached a squat counter at the bottom of a rep
MissingJointsIgnored_witness ==
    /\ out.op = "update"
    /\ out.state.warnings = <<"Legs not visible">>
    /\ counter.cls = "Squat"
    /\ counter.phase = "BOTTOM"
    /\ counter.hipYTop # NULL

\* the transition of each class that counts, <<from, to>>
ClosingTransition(cls) ==
    CASE cls \in {"JumpingJack", "LegSpread"} -> <<"OPEN", "CLOSED">>
      [] cls \in {"ArmRaise", "KneeRaise", "SitUp", "PullUp"} -> <<"UP", "DOWN">>
      [] cls = "TorsoBend" -> <<"BEND", "CENTER">>
      [] cls \in {"Squat", "Lunge", "PushUp"} -> <<"UP", "TOP">>
      [] cls = "Hold" -> <<"HOLDING", "COUNTED">>

\* C5: an update() changes repCount only if that same update commits the
\* class's cycle-completing transition, and then by exactly 1; an update that
\* commits another transition, or none, leaves repCount unchanged.
CountsOnlyOnClosing ==
    [][ IsUpdate /\ counter'.repCount # counter.repCount =>
            /\ counter'.repCount = counter.repCount + 1
            /\ <<counter.phase, counter'.phase>> = ClosingTransition(counter.cls) ]_vars

\* a hold has been counted, and a push-up has come back to TOP uncounted
CountsOnlyOnClosing_witness ==
    \/ counter.cls = "Hold" /\ counter.phase = "COUNTED" /\ counter.repCount = 1
    \/ /\ counter.cls = "PushUp" /\ counter.phase = "TOP" /\ counter.repCount = 0
       /\ out.op = "update" /\ ~out.state.isRepValid

\* the step is an update of a cyclic open/close counter past calibration
IsCyclicUpdate ==
    /\ IsUpdate
    /\ counter.cls \in {"JumpingJack", "LegSpread"}
    /\ counter.phase \in {"CLOSED", "OPEN"}

\* C6 as stated: from CLOSED, a frame that satisfies the open condition opens
\* the cycle and a later frame that satisfies the closed condition closes it
\* and counts exactly 1; while no frame satisfies the closed condition the
\* count does not change.
OpenCloseOnceCounts ==
    [][ IsCyclicUpdate =>
            LET k == hist'.last IN
            /\ counter.phase = "CLOSED" =>
                  /\ counter'.repCount = counter.repCount
                  /\ k.open => counter'.phase = "OPEN"
            /\ counter.phase = "OPEN" =>
                  IF k.closed
                  THEN counter'.repCount = counter.repCount + 1
                       /\ counter'.phase = "CLOSED"
                  ELSE counter'.repCount = counter.repCount
                       /\ counter'.phase = "OPEN" ]_vars

\* C6, amended: a frame opens (closes) the cycle exactly when it is measured
\* and satisfies the open (closed) condition and, in JumpingJackCounter, the
\* measured frame before it satisfied it too; closing counts exactly 1, and
\* as long as the cycle is not closed the count does not change.
OpenCloseCycleCounts ==
    [][ IsCyclicUpdate =>
            LET k == hist'.last
                twice == counter.cls = "JumpingJack"
                opens == k.open /\ (twice => hist.lastMeasured.open)
                closes == k.closed /\ (twice => hist.lastMeasured.closed)
            IN  /\ counter.phase = "CLOSED" =>
                      /\ counter'.repCount = counter.repCount
                      /\ counter'.phase = IF opens THEN "OPEN" ELSE "CLOSED"
                /\ counter.phase = "OPEN" =>
                      IF closes
                      THEN counter'.repCount = counter.repCount + 1
                           /\ counter'.phase = "CLOSED"
                      ELSE counter'.repCount = counter.repCount
                           /\ counter'.phase = "OPEN" ]_vars

\* a jumping jack has been counted on the second closed frame in a row
OpenCloseCycleCounts_witness ==
    /\ counter.cls = "JumpingJack"
    /\ counter.phase = "CLOSED"
    /\ counter.repCount = 1
    /\ hist.last.closed

\* C7: in JumpingJack, LegSpread, ArmRaise, KneeRaise, TorsoBend and SitUp
\* counters, when an update increments repCount, some update since the last
\* increment or reset had a frame that satisfied the open/raise condition.
CountNeedsOpen ==
    [][ /\ IsUpdate
        /\ counter.cls \in {"JumpingJack", "LegSpread", "ArmRaise", "KneeRaise",
                            "TorsoBend", "SitUp"}
        /\ counter'.repCount # counter.repCount
        => hist.sawOpen ]_vars

\* a sit-up has been counted, and after it a frame satisfied the lower
\* condition again without counting
CountNeedsOpen_witness ==
    /\ counter.cls = "SitUp"
    /\ counter.repCount = 1
    /\ counter.phase = "DOWN"
    /\ hist.last.closed
    /\ ~hist.sawOpen

\* C8: in JumpingJackCounter and LegSpreadCounter an update commits
\* CLOSED -> OPEN (OPEN -> CLOSED) only if its frame and the frame delivered
\* just before it both satisfy the open (closed) condition.
TransitionNeedsTwoFrames ==
    [][ IsCyclicUpdate =>
            /\ counter.phase = "CLOSED" /\ counter'.phase = "OPEN" =>
                  hist.last.open /\ hist'.last.open
            /\ counter.phase = "OPEN" /\ counter'.phase = "CLOSED" =>
                  hist.last.closed /\ hist'.last.closed ]_vars

\* C9 as stated, first half: for every counter of the registry, the frame an
\* update measured never satisfies both the condition that enters the active
\* phase and the condition that leaves it and counts.
EnterAndCountDisjoint ==
    out.op = "update" => ~(hist.last.open /\ hist.last.closed)

\* C9, amended: for every counter of the registry but the hold counters
\* (whose count condition is the enter condition held for the hold time), the
\* frame an update measured never satisfies both conditions; and for every
\* counter an update increments repCount only if its frame satisfies the
\* count condition and an earlier frame since the last increment or reset
\* satisfied the enter condition.
HysteresisNoDoubleCount ==
    [][ IsUpdate =>
            /\ counter.cls # "Hold" => ~(hist'.last.open /\ hist'.last.closed)
            /\ counter'.repCount # counter.repCount =>
                  hist'.last.closed /\ hist.sawOpen ]_vars

\* an arm-raise counter in UP has seen a frame between the two thresholds,
\* and nothing is counted
HysteresisNoDoubleCount_witness ==
    /\ counter.cls = "ArmRaise"
    /\ counter.phase = "UP"
    /\ counter.repCount = 0
    /\ hist.last.measured /\ ~hist.last.open /\ ~hist.last.closed

\* C10: in SquatCounter, LungeCounter and PushUpCounter an update changes
\* the phase only along TOP -> DOWN -> BOTTOM -> UP -> TOP, one transition
\* at a time, and when it counts the phase has been BOTTOM since it last was
\* TOP.
PhaseCycleOrder ==
    [][ IsUpdate /\ counter.cls \in {"Squat", "Lunge", "PushUp"} =>
            /\ counter'.phase # counter.phase =>
                  <<counter.phase, counter'.phase>> \in
                      {<<"TOP", "DOWN">>, <<"DOWN", "BOTTOM">>, <<"BOTTOM", "UP">>,
                       <<"UP", "TOP">>}
            /\ counter'.repCount # counter.repCount => hist.sawBottom ]_vars

\* a squat counter is still in DOWN after a partial dip and the return to
\* standing: nothing is counted
PhaseCycleOrder_witness ==
    /\ counter.cls = "Squat"
    /\ counter.phase = "DOWN"
    /\ counter.repCount = 0
    /\ hist.last.closed
    /\ ~hist.sawBottom

\* the measurement the four-phase counter c takes of a measured frame
FourPhaseMeasure(c, pose) ==
    IF c.cls = "PushUp" THEN PushUpCounter_measure(c, pose)
    ELSE SquatCounter_measure(c, selectLegSide(pose.rawLandmarks))

\* the phase the four-phase counter c is taken to by measurement m
FourPhaseNext(c, m) ==
    CASE c.cls = "Squat" -> SquatCounter_step(c, m).phase
      [] c.cls = "Lunge" -> LungeCounter_step(c, m).phase
      [] c.cls = "PushUp" -> PushUpCounter_step(c, m).phase

\* measurement m with its normalized displacement replaced by r
WithDisplacement(c, m, r) ==
    IF c.cls = "PushUp" THEN [m EXCEPT !.shoulderDrop = r]
    ELSE [m EXCEPT !.hipDrop = r]

\* measurement m with its joint angle replaced by a (degrees)
WithAngle(c, m, a) ==
    IF c.cls = "PushUp" THEN [m EXCEPT !.elbowAngle2 = 2 * a]
    ELSE [m EXCEPT !.kneeAngle = a]

\* the two ends of the displacement range (at the top position, a whole leg
\* or torso length below it) and of the angle range
FarDisplacements == {Rat(0, 1), Rat(1, 1)}
FarAngles == {0, 180}

\* C11: in SquatCounter, LungeCounter and PushUpCounter, whenever a measured
\* frame advances the phase, the advance needs the frame's joint angle and
\* its normalized displacement: the same frame with the angle at one end of
\* its range does not advance, and neither does the same frame with the
\* displacement at one end of its range (no advance on the angle alone).
AdvanceNeedsAngleAndDisplacement ==
    counter.cls \in {"Squat", "Lunge", "PushUp"} =>
        \A f \in Frames[counter.cls], d \in FirstDts(counter) :
            LET pose == PoseFrame(f, now + d) IN
            Measured(counter, pose, NULL) =>
                LET m == FourPhaseMeasure(counter, pose) IN
                FourPhaseNext(counter, m) # counter.phase =>
                    /\ \E a \in FarAngles :
                          FourPhaseNext(counter, WithAngle(counter, m, a)) = counter.phase
                    /\ \E r \in FarDisplacements :
                          FourPhaseNext(counter, WithDisplacement(counter, m, r))
                              = counter.phase

\* C12: a calibrated PushUpCounter that has seen 6 frames in a row with the
\* hips out of line while in BOTTOM keeps repValid false for the rest of the
\* rep, still advances UP -> TOP on the frame that satisfies the top
\* condition, leaves repCount unchanged on that transition and returns the
\* warning "Rep not counted" from the update that commits it.
UnstableRepNotCounted ==
    [][ IsUpdate /\ counter.cls = "PushUp" /\ hist.sixBad
        /\ counter.phase \in {"BOTTOM", "UP"} =>
            /\ ~counter'.repValid
            /\ counter'.repCount = counter.repCount
            /\ counter.phase = "UP" =>
                  /\ hist'.last.closed <=> counter'.phase = "TOP"
                  /\ counter'.phase = "TOP" =>
                        \E i \in DOMAIN out'.state.warnings :
                            out'.state.warnings[i] = "Rep not counted" ]_vars

\* the rep with six bad frames in BOTTOM has come back to TOP uncounted
UnstableRepNotCounted_witness ==
    /\ counter.cls = "PushUp"
    /\ hist.sixBad
    /\ counter.phase = "TOP"
    /\ counter.repCount = 0
    /\ out.op = "update"
    /\ out.state.warnings = <<"Rep not counted">>
    /\ ~out.state.isRepValid

\* C13: in PushUpCounter the UP -> TOP transition is committed with
\* isRepValid false only if a frame with the hips out of line was delivered
\* while the counter was in DOWN or BOTTOM in that rep (instability seen
\* only in TOP or in UP does not suppress the count), and
\* isRepValid is true in the result of the update that commits TOP -> DOWN.
SuppressedOnlyByDownInstability ==
    [][ IsUpdate /\ counter.cls = "PushUp" =>
            /\ counter.phase = "UP" /\ counter'.phase = "TOP"
               /\ ~out'.state.isRepValid => hist.badDown
            /\ counter.phase = "TOP" /\ counter'.phase = "DOWN" =>
                  out'.state.isRepValid /\ counter'.repValid ]_vars

\* the push-up counter has no calibration: setCalibration() has not been
\* called since construction or the last reset()
Uncalibrated(c) == c.cls = "PushUp" /\ c.thresholds = NULL

\* C14 as stated: without calibration the PushUpCounter is in CALIBRATING
\* with no shoulder sample, and every update() changes nothing and returns
\* phase CALIBRATING with the warning "Calibrating..."; reset() takes the
\* counter back to that state.
UncalibratedAlwaysCalibrating ==
    counter.cls = "PushUp" =>
        /\ Uncalibrated(PushUpCounter_reset(counter))
        /\ Uncalibrated(counter) <=> counter.phase = "CALIBRATING"
        /\ Uncalibrated(counter) =>
              /\ counter.lastShoulderY = NULL /\ counter.lastTime = NULL
              /\ \A f \in Frames["PushUp"], d \in Dts :
                    LET r == update(counter, PoseFrame(f, now + d), NULL, now + d, now + d)
                    IN  /\ r.c = counter
                        /\ r.out.repCount = counter.repCount
                        /\ r.out.phase = "CALIBRATING"
                        /\ r.out.warnings = <<"Calibrating...">>

\* C14, amended: the same, but the warning is "Calibrating..." for a valid
\* pose and "No pose detected" for an invalid one.
UncalibratedStaysCalibrating ==
    counter.cls = "PushUp" =>
        /\ Uncalibrated(PushUpCounter_reset(counter))
        /\ Uncalibrated(counter) <=> counter.phase = "CALIBRATING"
        /\ Uncalibrated(counter) =>
              /\ counter.lastShoulderY = NULL /\ counter.lastTime = NULL
              /\ \A f \in Frames["PushUp"], d \in Dts :
                    LET r == update(counter, PoseFrame(f, now + d), NULL, now + d, now + d)
                    IN  /\ r.c = counter
                        /\ r.out.repCount = counter.repCount
                        /\ r.out.phase = "CALIBRATING"
                        /\ r.out.warnings = IF f.valid THEN <<"Calibrating...">>
                                            ELSE <<"No pose detected">>

\* a push-up counter that was calibrated and measured frames has been reset
\* and then given a valid frame
UncalibratedStaysCalibrating_witness ==
    /\ Uncalibrated(counter)
    /\ now > 0
    /\ out.op = "update"
    /\ out.state.warnings = <<"Calibrating...">>
    /\ out.state.phase = "CALIBRATING"

\* the step is an update of a hold counter that measured its frame
IsHoldUpdate == IsUpdate /\ counter.cls = "Hold" /\ hist'.last.measured

\* C15: a HoldCounter that entered HOLDING at time t0 and is given a frame
\* at time t: if the predicate holds and t - t0 >= holdSeconds, the update
\* increments repCount by exactly 1 and moves to COUNTED; if the predicate
\* holds and t - t0 < holdSeconds, nothing changes; if the predicate is
\* false, the update returns to READY and leaves repCount unchanged.
HoldCountsAtDuration ==
    [][ IsHoldUpdate /\ counter.phase = "HOLDING" =>
            LET t0 == counter.holdStart[1]
                t == now'
            IN  IF hist'.last.open
                THEN IF t - t0 >= counter.holdSeconds
                     THEN /\ counter'.repCount = counter.repCount + 1
                          /\ counter'.phase = "COUNTED"
                     ELSE /\ counter'.repCount = counter.repCount
                          /\ counter'.phase = "HOLDING"
                ELSE /\ counter'.repCount = counter.repCount
                     /\ counter'.phase = "READY" ]_vars

\* C16: a HoldCounter counts at most once per continuous hold. In COUNTED
\* no update changes repCount, and the phase changes only to READY, on a
\* measured frame with the predicate false, which clears the timer;
\* READY -> HOLDING starts the timer at the time of that update; and every
\* count is a HOLDING -> COUNTED transition at least holdSeconds after the
\* timer started. The phase moves only along READY -> HOLDING,
\* HOLDING -> READY, HOLDING -> COUNTED and COUNTED -> READY.
HoldCountsOncePerHold ==
    [][ IsUpdate /\ counter.cls = "Hold" =>
            /\ counter.phase = "COUNTED" =>
                  /\ counter'.repCount = counter.repCount
                  /\ counter'.phase =
                        IF hist'.last.measured /\ ~hist'.last.open
                        THEN "READY" ELSE "COUNTED"
            /\ counter'.phase = "READY" => counter'.holdStart = NULL
            /\ counter.phase = "READY" /\ counter'.phase = "HOLDING" =>
                  counter'.holdStart = <<now'>>
            /\ counter'.repCount # counter.repCount =>
                  /\ counter'.repCount = counter.repCount + 1
                  /\ counter.phase = "HOLDING" /\ counter'.phase = "COUNTED"
                  /\ counter'.holdStart = counter.holdStart
                  /\ now' - counter.holdStart[1] >= counter.holdSeconds
            /\ counter'.phase # counter.phase =>
                  <<counter.phase, counter'.phase>> \in
                      {<<"READY", "HOLDING">>, <<"HOLDING", "READY">>,
                       <<"HOLDING", "COUNTED">>, <<"COUNTED", "READY">>} ]_vars

\* a second hold has been counted, a full hold time after its own timer
\* started
HoldCountsOncePerHold_witness ==
    /\ counter.cls = "Hold"
    /\ counter.repCount = 2
    /\ counter.phase = "COUNTED"
    /\ hist.last.open
    /\ now >= counter.holdStart[1] + counter.holdSeconds
    /\ counter.holdStart[1] >= 2 * counter.holdSeconds

\* C17: whenever a PullUpCounter is given a valid frame without a bar
\* position, update() returns phase WAITING_BAR with the warning "Bar not
\* found" and leaves the machine in WAITING_BAR, so that a phase reached
\* before the bar was lost cannot count a rep later.
NoBarMeansWaiting ==
    counter.cls = "PullUp" =>
        \A f \in Frames["PullUp"] :
            f.valid =>
                LET r == update(counter, PoseFrame(f, now), NULL, now, now)
                IN  /\ r.out.phase = "WAITING_BAR"
                    /\ r.out.warnings = <<"Bar not found">>
                    /\ r.c.phase = "WAITING_BAR"

\* the nose is above the bar by more than the chin margin
NoseAboveBar(c, lm, barY) == barY - lm["nose"].y * 100 > c.thresholds.chinAboveBar

\* the nose is below the bar by more than the reset margin
NoseBelowBar(c, lm, barY) == lm["nose"].y * 100 - barY > c.thresholds.bottomResetDelta

\* C18: an update takes a PullUpCounter into UP only with a valid, complete
\* frame and a bar position for which the nose is above the bar by more than
\* the chin margin, the shoulder-to-nose depth is within tolerance and the
\* mean wrist height is within the band of the bar, all three together; and
\* an update counts only in phase UP, by exactly 1, moving to DOWN, on a
\* frame in which the nose is below the bar by more than the reset margin.
PullUpGates ==
    counter.cls = "PullUp" =>
        \A f \in Frames["PullUp"], barY \in BarYs(selectedId) :
            LET lm == f.rawLandmarks
                r == update(counter, PoseFrame(f, now), barY, now, now)
                seen == f.valid /\ barY # NULL /\ JointsVisible(counter, lm)
            IN  /\ counter.phase # "UP" /\ r.c.phase = "UP" =>
                      /\ seen
                      /\ NoseAboveBar(counter, lm, barY[1])
                      /\ PullUpCounter_conditions(counter, lm, barY[1]).depthOk
                      /\ PullUpCounter_conditions(counter, lm, barY[1]).wristsOnBar
                /\ r.c.repCount # counter.repCount =>
                      /\ seen
                      /\ counter.phase = "UP" /\ r.c.phase = "DOWN"
                      /\ r.c.repCount = counter.repCount + 1
                      /\ NoseBelowBar(counter, lm, barY[1])

\* a pull-up has been counted, and after it a frame with the chin over the
\* bar but the head too far forward has left the counter in DOWN
PullUpGates_witness ==
    /\ counter.cls = "PullUp"
    /\ counter.repCount = 1
    /\ counter.phase = "DOWN"
    /\ out.op = "update"
    /\ \E i \in DOMAIN out.state.warnings :
          out.state.warnings[i] = "Move back from camera"

\* the step is a call of calibrator.update()
IsCalibratorUpdate == calOut'.op = "update" /\ <<calibrator, calOut, now>> # <<calibrator', calOut', now'>>

\* the sample lists of calibrator k
Samples(k) == <<k.elbowAngles, k.shoulderYs, k.hipYs, k.torsoLengths>>

\* C19: PassiveCalibrator.update returns a result only for a valid frame with
\* every required joint, read when the configured window has elapsed since
\* the first valid frame; the window starts at the first valid frame, even
\* one with joints missing, and is not restarted; an invalid frame changes
\* nothing, and a frame with missing joints adds no sample to any list.
CalibratorNotReadyEarly ==
    [][ IsCalibratorUpdate =>
            /\ calOut'.result # NULL =>
                  /\ calOut'.valid /\ calOut'.complete
                  /\ now' - calibrator'.startTime[1] >= calibrator.durationMs
            /\ ~calOut'.valid => calibrator' = calibrator
            /\ calOut'.valid =>
                  /\ calibrator'.startTime # NULL
                  /\ calibrator.startTime # NULL =>
                        calibrator'.startTime = calibrator.startTime
                  /\ calibrator.startTime = NULL =>
                        calibrator'.startTime[1] \in {now + d : d \in CalDts}
            /\ ~calOut'.complete => Samples(calibrator') = Samples(calibrator) ]_vars

\* a complete frame has been sampled one second before the end of a window
\* that a frame without hips started, and no result is returned
CalibratorNotReadyEarly_witness ==
    /\ calOut.op = "update"
    /\ calOut.complete
    /\ calOut.result = NULL
    /\ calibrator.startTime = <<0>>
    /\ now = 2000
    /\ Len(calibrator.elbowAngles) = 2

\* C20: between two reset() calls PassiveCalibrator.update returns a result
\* on exactly one call, the first complete frame at or after the end of the
\* window; every later call returns no result.
CalibratorResultOnce ==
    [][ IsCalibratorUpdate =>
            (calOut'.result # NULL <=>
                /\ calOut'.complete
                /\ now' - calibrator'.startTime[1] >= calibrator.durationMs
                /\ ~calOut.produced) ]_vars

\* C21: after any sequence of append() calls on a PoseHistory of capacity
\* N >= 1 the buffer holds at most N frames, which are the last min(k, N) of
\* the k appended frames in append order, and latest() is the last appended
\* frame.
PoseHistoryKeepsLastN ==
    LET k == Len(poseOut.appended)
        n == Min(k, poseHistory.maxlen)
    IN  /\ poseHistory.maxlen >= 1
        /\ Len(poseHistory.buffer) <= poseHistory.maxlen
        /\ poseHistory.buffer = SubSeq(poseOut.appended, k - n + 1, k)
        /\ k > 0 => PoseHistory_latest(poseHistory) = <<poseOut.appended[k]>>

\* three frames of different times appended to a history of capacity 2
PoseHistoryKeepsLastN_witness ==
    /\ poseOut.op = "append"
    /\ poseHistory.maxlen = 2
    /\ Len(poseOut.appended) = 3
    /\ poseOut.appended[1].timestamp < poseOut.appended[2].timestamp
    /\ poseOut.appended[2].timestamp < poseOut.appended[3].timestamp

IsTimeWindow == poseOut'.op = "timeWindow" /\ poseOut' # poseOut

\* the indices of the stored frames no more than `seconds` older than the
\* last appended frame
InWindow(h, newest, seconds) ==
    {i \in 1..Len(h.buffer) : newest.timestamp - h.buffer[i].timestamp <= seconds}

\* the result of the last timeWindow() is the stored frames of InWindow, in
\* buffer order
ResultIsWindow ==
    IF Len(poseOut.appended) = 0 THEN poseOut.result = <<>>
    ELSE LET idx == InWindow(poseHistory, poseOut.appended[Len(poseOut.appended)],
                             poseOut.seconds)
         IN  /\ Len(poseOut.result) = Cardinality(idx)
             /\ \A j \in 1..Len(poseOut.result) :
                   \E i \in idx :
                      /\ Cardinality({m \in idx : m <= i}) = j
                      /\ poseOut.result[j] = poseHistory.buffer[i]

\* C22: timeWindow(T) returns, in buffer order, exactly the stored frames
\* with newest.timestamp - t <= T (the frame exactly T older included), the
\* empty list for an empty buffer, and does not modify the buffer.
TimeWindowInclusive ==
    [][ IsTimeWindow => poseHistory' = poseHistory /\ ResultIsWindow' ]_vars

\* frames at 0, 1 and 2 s are stored; a window of 1 s returns the last two
TimeWindowInclusive_witness ==
    /\ poseOut.op = "timeWindow"
    /\ poseOut.seconds = 1000
    /\ Len(poseHistory.buffer) = 3
    /\ Len(poseOut.result) = 2
    /\ poseOut.result[1].timestamp + 1000 = poseOut.result[2].timestamp
    /\ poseHistory.buffer[1].timestamp + 2000 = poseOut.result[2].timestamp

\* C23: toPoseFrame returns valid = false exactly when the landmark array is
\* absent or not of 33 landmarks, and then every raw and every normalized
\* slot is absent; every valid frame was built from exactly 33 landmarks.
InvalidFrameIffWrongLength ==
    poseOut.op = "append" =>
        LET frame == poseOut.appended[Len(poseOut.appended)]
            wrong == \/ poseOut.landmarks = NULL
                     \/ Len(poseOut.landmarks[1]) # 33
        IN  /\ ~frame.valid <=> wrong
            /\ ~frame.valid => /\ DOMAIN frame.rawLandmarks = {}
                               /\ DOMAIN frame.normalizedLandmarks = {}
            /\ frame.valid => /\ poseOut.landmarks # NULL
                              /\ Len(poseOut.landmarks[1]) = 33

\* an array of 32 landmarks has given the invalid frame
InvalidFrameIffWrongLength_witness ==
    /\ poseOut.op = "append"
    /\ poseOut.landmarks # NULL
    /\ Len(poseOut.landmarks[1]) = 32
    /\ ~poseOut.appended[Len(poseOut.appended)].valid

IsBarUpdate == barOut'.op = "update" /\ now' # now

\* C24: an update() that finds no candidate returns the last accepted
\* position if and only if there is one and no more than the max-age window
\* (0.6 s) has passed since it was accepted; once an update() has returned
\* "no bar" for age, every update() without a candidate does, and so does
\* one with no earlier detection.
StaleBarExpires ==
    [][ IsBarUpdate /\ barOut'.candidate = NULL =>
            /\ barOut'.result =
                  IF /\ barOut.acceptedY # NULL
                     /\ now' - barOut.acceptedAt[1] <= 600
                  THEN barOut.acceptedY ELSE NULL
            /\ barOut.expired => barOut'.result = NULL ]_vars

\* no candidate exactly 0.6 s after the last accepted one: still returned
StaleBarExpires_witness ==
    /\ barOut.op = "update"
    /\ barOut.candidate = NULL
    /\ barOut.result # NULL
    /\ barOut.acceptedAt # NULL
    /\ now - barOut.acceptedAt[1] = 600

\* no row of the analysed part scores above 0, or the largest row score is
\* below 1.6 times the mean row score
NoDominantEdge(imageData) ==
    LET scores == rowScores(imageData)
        n == Cardinality(DOMAIN scores)
        total == SumTo(scores, n - 1)
    IN  \/ \A y \in DOMAIN scores : scores[y] = 0
        \/ \A y \in DOMAIN scores : scores[y] * 10 * n < total * 16

\* C25: every value update() returns is absent or within [0, 1], and a frame
\* without a dominant horizontal edge yields no candidate.
BarPositionInUnitRange ==
    /\ barOut.result # NULL => barOut.result[1] >= 0 /\ barOut.result[1] <= 100000
    /\ barOut.op = "update" /\ NoDominantEdge(barOut.image[1])
          => barOut.candidate = NULL

\* a striped frame after two detections at different rows: no candidate, and
\* the smoothed position is returned
BarPositionInUnitRange_witness ==
    /\ barOut.op = "update"
    /\ NoDominantEdge(barOut.image[1])
    /\ \E y \in DOMAIN rowScores(barOut.image[1]) : rowScores(barOut.image[1])[y] > 0
    /\ barOut.accepted = 2
    /\ barOut.result # NULL
    /\ barOut.result[1] \notin {20000, 30000, 40000}

\* C26: once another exercise has been selected while the frame loop runs,
\* every frame goes to the counter created for the selected exercise and
\* never to the previous exercise's counter.
FramesGoToSelectedCounter ==
    session.op = "frame" => session.fedCurrent

IsFrame == session'.op = "frame"

\* C30: a total in exerciseTotals increases by 1 on exactly the frames on
\* which the update() of the fed counter increased its repCount, for that
\* counter's exercise, and on no other frame; no other handler increases a
\* total.
TotalsFollowCounts ==
    [][ /\ IsFrame =>
              session'.exerciseTotals =
                  IF session'.counted
                  THEN Credit(session.exerciseTotals, session'.countedId)
                  ELSE session.exerciseTotals
        /\ ~IsFrame =>
              \A id \in DOMAIN session'.exerciseTotals :
                 /\ id \in DOMAIN session.exerciseTotals
                 /\ session'.exerciseTotals[id] <= session.exerciseTotals[id] ]_vars

\* the joints selectLegSide (selectTorsoSide for the sit-up) looks for
SideJoints(cls) ==
    IF cls = "SitUp"
    THEN [left |-> <<"left_shoulder", "left_hip", "left_knee">>,
          right |-> <<"right_shoulder", "right_hip", "right_knee">>]
    ELSE [left |-> <<"left_hip", "left_knee", "left_ankle">>,
          right |-> <<"right_hip", "right_knee", "right_ankle">>]

\* the landmark maps of the class, and its full postures with the right
\* knee hidden and with the left hip and the right knee hidden
SidePostures(cls) ==
    Landmarks[cls] \cup
    {[k \in Names \ hidden |-> lm[k]] :
        lm \in {l \in Landmarks[cls] : DOMAIN l = Names},
        hidden \in {{"right_knee"}, {"left_hip", "right_knee"}}}

\* C27: selectLegSide and selectTorsoSide return the left joints whenever
\* the left side is complete, the right joints when only the right side is,
\* and nothing when neither is; then the knee-raise, squat, lunge and sit-up
\* counters return their "not visible" warning and keep phase and repCount.
LeftSideFirst ==
    counter.cls \in {"KneeRaise", "Squat", "Lunge", "SitUp"} =>
        \A lm \in SidePostures(counter.cls) :
            LET left == SideJoints(counter.cls).left
                right == SideJoints(counter.cls).right
                leftValid == Present(lm, {left[i] : i \in 1..3})
                rightValid == Present(lm, {right[i] : i \in 1..3})
                side == IF counter.cls = "SitUp" THEN selectTorsoSide(lm)
                        ELSE selectLegSide(lm)
                r == update(counter, PoseFrame([valid |-> TRUE, rawLandmarks |-> lm], now),
                            NULL, now, now)
            IN  /\ leftValid => side = <<lm[left[1]], lm[left[2]], lm[left[3]]>>
                /\ ~leftValid /\ rightValid
                      => side = <<lm[right[1]], lm[right[2]], lm[right[3]]>>
                /\ ~leftValid /\ ~rightValid
                      => /\ side = NULL
                         /\ r.out.warnings = <<RegionWarning(counter.cls)>>
                         /\ r.out.phase = counter.phase
                         /\ r.out.repCount = counter.repCount
                         /\ r.c.phase = counter.phase
                         /\ r.c.repCount = counter.repCount

\* a frame with neither leg complete has reached a knee-raise counter whose
\* knee is up, after one rep
LeftSideFirst_witness ==
    /\ out.op = "update"
    /\ counter.cls = "KneeRaise"
    /\ counter.phase = "UP"
    /\ counter.repCount = 1
    /\ out.state.warnings = <<"Legs not visible">>

\* C28: a HoldCounter with alternative landmark groups passes its visibility
\* check if and only if some group is completely present; when none is,
\* update() returns "Body not visible" and changes neither phase, repCount
\* nor the hold timer.
AnyGroupVisible ==
    counter.cls = "Hold" /\ counter.requiredAnyGroups # NULL =>
        \A lm \in SidePostures("Hold"), d \in Dts :
            LET anyGroup == \E group \in counter.requiredAnyGroups[1] :
                               \A k \in group : k \in DOMAIN lm
                r == update(counter,
                            PoseFrame([valid |-> TRUE, rawLandmarks |-> lm], now + d),
                            NULL, now + d, now + d)
            IN  /\ HoldCounter_visible(counter, lm) <=> anyGroup
                /\ r.out.warnings = <<"Body not visible">> <=> ~anyGroup
                /\ ~anyGroup => /\ r.c.phase = counter.phase
                                /\ r.c.repCount = counter.repCount
                                /\ r.c.holdStart = counter.holdStart
                                /\ r.out.phase = counter.phase
                                /\ r.out.repCount = counter.repCount

\* a frame with no complete group has reached a hold counter in mid-hold
AnyGroupVisible_witness ==
    /\ out.op = "update"
    /\ counter.cls = "Hold"
    /\ counter.requiredAnyGroups # NULL
    /\ counter.phase = "HOLDING"
    /\ counter.holdStart # NULL
    /\ out.state.warnings = <<"Body not visible">>

\* C29: two runs of a counter fed the same frames, one of them with every
\* coordinate and the bar position scaled uniformly about a fixed point, go
\* through the same phases and repCounts.
SameUnderScaling ==
    twin # NULL =>
        /\ counter.phase = twin[1].phase
        /\ counter.repCount = twin[1].repCount

\* C31: at most one loop callback is scheduled at any time, and none is left
\* scheduled after Stop Camera.
OneLoopScheduled ==
    /\ Cardinality(session.scheduled) <= 1
    /\ session.op = "stopCamera" => session.scheduled = {}

\* the push-up counter is calibrated and in BOTTOM
InBottom ==
    counter.cls = "PushUp" /\ counter.thresholds # NULL /\ counter.phase = "BOTTOM"

\* the shoulder velocity of a frame at time t exists: a complete frame came
\* before, and more than 1e-6 s ago
VelocityAvailable(t) ==
    /\ counter.lastShoulderY # NULL
    /\ counter.lastTime # NULL
    /\ t - counter.lastTime[1] > 0

\* the frame rises: velocity < -0.02 /s and elbow angle > bottomElbowAngle + 5
Rising(lm, t) ==
    /\ Present(lm, PushUpCounter_requiredJoints)
    /\ (Mean2(lm["left_shoulder"].y, lm["right_shoulder"].y)
            - counter.lastShoulderY[1]) < -2 * (t - counter.lastTime[1])
    /\ angleDegrees(lm["left_shoulder"], lm["left_elbow"], lm["left_wrist"])
          + angleDegrees(lm["right_shoulder"], lm["right_elbow"], lm["right_wrist"])
          > 2 * (counter.thresholds[1].bottomElbowAngle + 5)

\* C32: from BOTTOM an update() leaves the push-up counter in BOTTOM or takes
\* it to UP; it takes it to UP only when the shoulder velocity is available,
\* below -0.02 and the elbow angle is above bottomElbowAngle + 5; with the
\* velocity unavailable the counter stays in BOTTOM.
BottomNeedsVelocity ==
    InBottom =>
        \A frame \in Frames["PushUp"], d \in Dts :
            LET t == now + d
                r == update(counter, PoseFrame(frame, t), NULL, t, t)
            IN  /\ r.c.phase \in {"BOTTOM", "UP"}
                /\ r.c.phase = "UP" =>
                      /\ frame.valid
                      /\ VelocityAvailable(t)
                      /\ Rising(frame.rawLandmarks, t)
                /\ ~VelocityAvailable(t) => r.c.phase = "BOTTOM"

\* in BOTTOM, one rising frame delivered with no time passed leaves the
\* counter in BOTTOM, and the same frame a second later takes it to UP
BottomNeedsVelocity_witness ==
    /\ InBottom
    /\ out.op = "update"
    /\ \E frame \in Frames["PushUp"] :
          /\ frame.valid
          /\ ~VelocityAvailable(now)
          /\ Rising(frame.rawLandmarks, now + 1000)
          /\ update(counter, PoseFrame(frame, now), NULL, now, now).c.phase = "BOTTOM"
          /\ update(counter, PoseFrame(frame, now + 1000), NULL, now + 1000,
                    now + 1000).c.phase = "UP"

\* the reference length counter c has captured: NULL or <<length>> (in U)
ReferenceLength(c) ==
    CASE c.cls \in {"ArmRaise", "TorsoBend"} -> c.shoulderWidth
      [] c.cls = "LegSpread" -> c.hipWidth
      [] c.cls \in {"KneeRaise", "Squat", "Lunge"} -> c.legLength
      [] c.cls = "SitUp" -> c.torsoLength
      [] c.cls = "PushUp" ->
           IF c.calibration = NULL THEN NULL ELSE <<c.calibration[1].torsoLength>>
      [] OTHER -> NULL

\* C33: every reference length a counter has captured, and the torso length
\* of every result of the calibrator, is at least 1e-5.
ReferenceLengthsFloored ==
    /\ ReferenceLength(counter) # NULL => ReferenceLength(counter)[1] >= 1
    /\ calOut.result # NULL => calOut.result[1].torsoLength >= 1

\* the calibrator saw only frames whose shoulders and hips coincide, and the
\* push-up counter holds the floored torso length of its result
ReferenceLengthsFloored_witness ==
    /\ counter.cls = "PushUp"
    /\ calOut.result # NULL
    /\ calOut.result[1].torsoLength = 1
    /\ ReferenceLength(counter) = <<1>>

\* the names of the slots of a landmark record that are present
Slots(landmarks) == DOMAIN landmarks

\* C34: in a valid frame a raw slot is present exactly when its landmark's
\* visibility (0 when none is reported) is at least the threshold; the
\* normalized slots present are the raw slots present; with a hip absent
\* every normalized landmark equals its raw landmark.
SlotsFollowVisibility ==
    poseOut.op = "append" =>
        LET frame == poseOut.appended[Len(poseOut.appended)]
            arr == poseOut.landmarks[1]
            visible == {i \in 1..33 :
                           /\ arr[i].visibility # NULL
                           /\ arr[i].visibility[1] >= 50}
        IN  frame.valid =>
              /\ Slots(frame.rawLandmarks) = {POSE_LANDMARK_NAMES[i] : i \in visible}
              /\ Slots(frame.normalizedLandmarks) = Slots(frame.rawLandmarks)
              /\ \/ {"left_hip", "right_hip"} \subseteq Slots(frame.rawLandmarks)
                 \/ frame.normalizedLandmarks = frame.rawLandmarks

\* a valid frame with the nose exactly at the threshold present, the right
\* wrist, of no reported visibility, and the left hip absent, and the
\* normalized landmarks equal to the raw ones
SlotsFollowVisibility_witness ==
    /\ poseOut.op = "append"
    /\ poseOut.landmarks # NULL
    /\ Len(poseOut.landmarks[1]) = 33
    /\ poseOut.landmarks[1][1].visibility = <<50>>
    /\ LET frame == poseOut.appended[Len(poseOut.appended)]
       IN  /\ frame.valid
           /\ "nose" \in Slots(frame.rawLandmarks)
           /\ {"right_wrist", "left_hip", "left_shoulder"}
                 \cap Slots(frame.rawLandmarks) = {}
           /\ "right_hip" \in Slots(frame.normalizedLandmarks)
           /\ frame.normalizedLandmarks = frame.rawLandmarks

\* the rep of the counter the loop feeds is in progress
RepInProgress == LoopCounter.phase \in {"DOWN", "BOTTOM", "UP"}

ReportedPhaseIsHeld ==
    out.op = "update" => out.state.phase = counter.phase

\* C37: once an update() has returned no bar because the last position had
\* expired, the next accepted candidate is returned as it is, as a detector
\* just reset would return it.
ExpiredBarForgotten ==
    [][ IsBarUpdate /\ barOut.expired /\ barOut'.candidate # NULL =>
            /\ barOut'.result = barOut'.candidate
            /\ barOut'.result =
                  BarDetector_update(BarDetector_reset(barDetector),
                                     barOut'.image[1], now').result ]_vars

\* C38: whatever clock value a hold started at, 0 included, a frame that
\* still satisfies the predicate once holdSeconds have passed since the
\* start takes the counter from HOLDING to COUNTED with one more rep.
SustainedHoldCompletes ==
    counter.cls = "Hold" /\ counter.phase = "HOLDING" =>
        \A frame \in Frames["Hold"] :
            LET t == Max(now, counter.holdStart[1] + counter.holdSeconds)
                lm == frame.rawLandmarks
                r == update(counter, PoseFrame(frame, t), NULL, t, t)
            IN  /\ frame.valid
                /\ HoldCounter_visible(counter, lm)
                /\ holdCondition(counter.name, lm)
                => /\ r.c.phase = "COUNTED"
                   /\ r.c.repCount = counter.repCount + 1

TwoUpdates(c, f1, f2, barY, t, d) ==
    LET r1 == update(c, PoseFrame(f1, t), barY, t, t)
        r2 == update(r1.c, PoseFrame(f2, t + d), barY, t + d, t + d)
    IN  <<r1.out, r2.out>>

IsPushUpUpdate == IsUpdate /\ counter.cls = "PushUp"

\* the update() set isRepValid to false
Invalidated == counter.repValid /\ ~counter'.repValid

\* C40: update() sets isRepValid to false only on a frame with the hips out
\* of line that follows 4 delivered frames in a row with the hips out of
\* line; a frame with the hips in line puts the bad-frame count to 0.
FiveBadFramesInARow ==
    [][ IsPushUpUpdate =>
            /\ Invalidated => hist'.badStreak = 5
            /\ hist'.last.hips = "good" => counter'.badHipFrames = 0 ]_vars

\* C40 (as it holds): update() sets isRepValid to false only on a frame with
\* the hips out of line that is at least the 5th such frame since the rep
\* began or a frame had the hips in line; frames in between that are
\* invalid, incomplete or without hips are not counted and do not put the
\* bad-frame count back; a frame with the hips in line puts it to 0.
FiveBadFramesSinceGood ==
    [][ IsPushUpUpdate =>
            /\ Invalidated => hist'.last.hips = "bad" /\ hist'.badSeen = 5
            /\ hist'.last.hips = "good" => counter'.badHipFrames = 0
            /\ hist'.last.hips = "none" /\ ~RepBegins(counter, counter') =>
                  counter'.badHipFrames = counter.badHipFrames ]_vars

\* the rep was invalidated by the 5th frame with the hips out of line, with
\* a frame that was not such a frame among the last five delivered
FiveBadFramesSinceGood_witness ==
    /\ counter.cls = "PushUp"
    /\ out.op = "update"
    /\ ~counter.repValid
    /\ counter.badHipFrames = 5
    /\ hist.badSeen = 5
    /\ hist.badStreak < 5

====
